---- MODULE Spec2Model ----
(***************************************************************************)
(* Cyberdrop-DL: the concurrent fetch-and-download engine.                 *)
(*                                                                         *)
(* Spec       the Downloader engine: Downloader.limiter / run / download / *)
(*            download_hls, the FileLocksVault, the RUNNING latch and the  *)
(*            StorageManager (cyberdrop_dl/downloader/downloader.py,       *)
(*            managers/download_manager.py, managers/storage_manager.py).  *)
(* SpecFabric the rate-limit fabric of ClientManager and the ScraperClient *)
(*            calls made through it (managers/client_manager.py,           *)
(*            clients/scraper_client.py, scraper/crawlers/imgur_crawler.py)*)
(*                                                                         *)
(* asyncio is cooperative: the code between two awaits runs atomically, so *)
(* every action below is one such stretch of a coroutine.                  *)
(***************************************************************************)
EXTENDS Integers, Sequences, FiniteSets, TLC

\* ------------------------------------------------------------------ bounds
MaxTasks == 2      \* concurrent run() calls
MaxLimit == 2      \* largest configured semaphore capacity
MaxLines == 1      \* lines of an m3u8 playlist
MaxFree  == 2      \* largest free-space reading, in units of required_free_space

MaxCallers  == 2   \* concurrent callers of the rate-limit fabric
MaxChildren == 3   \* images of an album, and the largest children limit
MaxScrapes  == 3   \* concurrent scraper calls sharing the response cache
MaxRequests == 1   \* permits of global_request_semaphore (Semaphore(50) in the source)
MaxRate     == 1   \* largest max_rate of a token bucket; larger rates are cut to it

Tasks == 1..MaxTasks
Callers == 1..MaxCallers

\* The domains the Downloaders are bound to (one Downloader per extractor).
Domains == {"coomer", "no_crawler"}

\* MediaItem: url.path and filename are the fields the engine reads.
Items ==
    { [url |-> "/a", filename |-> "f.jpg"],
      [url |-> "/b", filename |-> "f.jpg"],
      [url |-> "/b", filename |-> "g.jpg"] }

NoItem == [url |-> "", filename |-> ""]

\* m3u8_content as its sequence of lines; <<>> is the empty string.
Lines == {"seg.ts", "#EXTM3U"}
Playlists == UNION { [1..n -> Lines] : n \in 0..MaxLines }

\* general.required_free_space, the unit in which free space is counted.
required_free_space == 1
FreeVals == 0..MaxFree
NoEntry == 0 - 1     \* the mount is not a key of _free_space

VARIABLES
    RUNNING,                    \* manager.states.RUNNING (asyncio.Event)
    ignore_history,             \* runtime_options.ignore_history
    max_simultaneous_downloads, \* rate_limiting_options.max_simultaneous_downloads
    max_slots_per_domain,       \* rate_limiting_options.max_simultaneous_downloads_per_domain
    max_concurrent_downloads,   \* crawler.max_concurrent_downloads per domain, 0 = unset
    processed_items,            \* Downloader.processed_items, per Downloader
    waiting_items,              \* Downloader.waiting_items, per Downloader
    semaphore,                  \* permits taken, per semaphore object
    session_limit,              \* permits taken of client_manager.download_session_limit
    locked_files,               \* FileLocksVault: the keys whose lock is held
    history,                    \* history ledger, per (domain, url path)
    pc,                         \* where each run() call stands
    dl,                         \* the Downloader (domain) of each run() call
    item,                       \* the media_item of each run() call
    m3u8,                       \* the m3u8_content of each run() call
    seg,                        \* HLS: where each download_segment() stands
    called,                     \* how many times run() invoked download / download_hls
    fresh,                      \* the url path was not in processed_items when run() was called
    result,                     \* what run() returned
    free_space,                 \* StorageManager._free_space of the mount in use
    loop,                       \* where _check_free_space_loop stands
    request_limiters,           \* ClientManager.request_limiters: its keys
    request_semaphore,          \* permits taken of global_request_semaphore
    level,                      \* tokens taken and not yet leaked, per token bucket
    fpc,                        \* where each caller of the fabric stands
    fkind,                      \* what each caller called
    fdomain,                    \* the domain tag each caller passed
    got,                        \* what get_request_limiter returned to each caller
    job,                        \* retry: the media_item given to download / download_hls
    job_m3u8,                   \* retry: the m3u8_content (empty: plain download)
    download_attempts,          \* rate_limiting_options.download_attempts
    disable_download_attempt_limit, \* download_options.disable_download_attempt_limit
    current_attempt,            \* media_item.current_attempt
    rpc,                        \* where the decorated download stands
    bodies,                     \* how many times the retry wrapper called the body
    errors,                     \* how many exceptions left the body
    raised,                     \* how many times an exception left the retry wrapper
    caught,                     \* the exception the body ended with, as exception_wrapper saw it
    last_error,                 \* the exception exception_wrapper let out
    only_retryable,             \* every attempt so far ended in DownloadError(retry=True), not 999
    current_attempt_filesize,   \* Downloader._current_attempt_filesize, per filename
    partial_file,               \* size of media_item.partial_file, NoEntry: no such file
    prev_size,                  \* size of the partial file when the previous attempt ended
    waited,                     \* download awaited RUNNING
    space_checked,              \* check_file_can_download was called
    requests,                   \* calls of client.download_file
    complete_file,              \* media_item.complete_file exists
    completed,                  \* the history row of the media_item is marked complete
    settings_download_attempts, \* file: settings.download_attempts
    temp_exists,                \* file: the .download file exists
    temp_file,                  \* file: its bytes
    final_exists,               \* file: the complete file exists
    final_file,                 \* file: its bytes
    dpc,                        \* file: where download_and_store stands
    times_tried,                \* file: times_tried of the retry decorator
    resume_point,               \* file: resume_point of the attempt
    chunks,                     \* file: the part of the response body not yet written
    sessions,                   \* file: how many times the program was started again
    enabled,                    \* Flaresolverr.enabled
    session_id,                 \* Flaresolverr.session_id is set
    spc,                        \* where each get_soup / get_text call stands
    smethod,                    \* the method each caller called
    retry_param,                \* `retry` of the pass in progress
    cache_disabled,             \* `cache_disabled` of the pass in progress
    target_requests,            \* GET requests sent to the url, per call
    solver_calls,               \* request.get commands sent to the solver, per call
    challenged,                 \* how many passes of the call met a challenge page
    ended_with,                 \* what the call returned or raised
    cpc,                        \* storage: where each check_free_space call stands
    no_pause_arg,               \* storage: `no_pause` as the caller passed it
    pass_no_pause,              \* storage: `no_pause` of the pass in progress
    cleared,                    \* storage: how many times the call cleared RUNNING
    seen,                       \* storage: the free space the first pass compared
    updated,                    \* StorageManager._updated (asyncio.Event)
    iterations,                 \* storage: completed iterations of the polling loop
    closing,                    \* storage: where close() stands
    http_response,              \* client: the response check_http_status was given
    http_outcome,               \* client: what check_http_status did with it
    fs_resp,                    \* client: the solver's answer Flaresolverr.get was given
    fs_outcome,                 \* client: what Flaresolverr.get did with it
    cookies,                    \* ClientManager.cookies: the names in the shared jar
    hpc,                        \* hls: where download_hls stands
    hls_content,                \* hls: m3u8_content, as its lines
    hls_segments,               \* hls: the names create_segments yielded, in order
    hls_n_segments,             \* hls: n_segments
    seg_result,                 \* hls: how self.download ended for each segment
    hls_error,                  \* hls: what download_hls raised
    concat_calls,               \* hls: calls of ffmpeg.concat
    concat_paths,               \* hls: the segments whose paths are given to ffmpeg.concat
    hashing,                    \* dupe_cleanup_options.hashing
    auto_dedupe,                \* dupe_cleanup_options.auto_dedupe
    add_md5_hash,               \* dupe_cleanup_options.add_md5_hash
    add_sha256_hash,            \* dupe_cleanup_options.add_sha256_hash
    send_deleted_to_trash,      \* dupe_cleanup_options.send_deleted_to_trash
    disk,                       \* what is on disk at each path
    hash_table,                 \* db_manager.hash_table: its records, in the store's order
    completed_downloads,        \* path_manager.completed_downloads
    hashed_media_items,         \* HashClient.hashed_media_items
    hashes_dict,                \* HashClient.hashes_dict: its paths, each under its hash
    removed_files,              \* hash_progress: the removed-file counter
    hash_file_calls,            \* how many times hash_manager.hash_file was called
    last_file,                  \* the file update_db_and_retrive_hash was last given
    last_written,               \* the hash types it wrote a record for
    update_calls,               \* calls of update_db_and_retrive_hash from outside
    dpc_cleanup,                \* where cleanup_dupes_after_download stands
    delete_failed,              \* the paths whose deletion raised OSError
    apc,                        \* ImgurCrawler.album: where the call stands
    children,                   \* scrape_item.children
    children_limit,             \* scrape_item.children_limit
    images,                     \* the number of images the album has (JSON_Obj["data"])
    emitted,                    \* what handle_direct did with each child handed to it, in order
    album_error,                \* the exception the album call ended with
    fetch_pc,                   \* CoomerCrawler.fetch: where the call stands
    scrape_url,                 \* scrape_item.url: its parts, its name and whether it has a query q
    handlers_run,               \* the handlers fetch has run for the item, in order
    disabled,                   \* request_cache.disabled, the flag of the shared response cache
    ccpc,                       \* cache_control: where each scraper call stands
    disabled_arg,               \* the cache_disabled argument of each scraper call
    mount_free,                 \* psutil.disk_usage(mount).free: the free space the mount has now
    handled_items               \* the media items the Downloader has handled before the current one

engine == << RUNNING, ignore_history, max_simultaneous_downloads, max_slots_per_domain,
           max_concurrent_downloads, processed_items, waiting_items, semaphore,
           session_limit, locked_files, history, pc, dl, item, m3u8, seg, called,
           fresh, result, free_space, loop >>

fabric == << request_limiters, request_semaphore, level, fpc, fkind, fdomain, got >>

retrying == << job, job_m3u8, download_attempts, disable_download_attempt_limit,
             current_attempt, rpc, bodies, errors, raised, caught, last_error,
             only_retryable, current_attempt_filesize, partial_file, prev_size,
             waited, space_checked, requests, complete_file, completed >>

filing == << settings_download_attempts, temp_exists, temp_file, final_exists,
            final_file, dpc, times_tried, resume_point, chunks, sessions >>

solving == << enabled, session_id, spc, smethod, retry_param, cache_disabled,
             target_requests, solver_calls, challenged, ended_with >>

storing == << cpc, no_pause_arg, pass_no_pause, cleared, seen, updated, iterations, closing >>

client == << http_response, http_outcome, fs_resp, fs_outcome, cookies >>

hls == << hpc, hls_content, hls_segments, hls_n_segments, seg_result, hls_error,
         concat_calls, concat_paths >>

deduping == << hashing, auto_dedupe, add_md5_hash, add_sha256_hash, send_deleted_to_trash,
              disk, hash_table, completed_downloads, hashed_media_items, hashes_dict,
              removed_files, hash_file_calls, last_file, last_written, update_calls,
              dpc_cleanup, delete_failed >>

album == << apc, children, children_limit, images, emitted, album_error >>

coomer == << fetch_pc, scrape_url, handlers_run >>

caching == << disabled, ccpc, disabled_arg >>

mount == << mount_free >>

serving == << handled_items >>

vars == << engine, fabric, retrying, filing, solving, storing, client, hls, deduping, album, coomer, caching, mount, serving >>

\* what the actions of one component leave alone
not_engine == << fabric, retrying, filing, solving, storing, client, hls, deduping, album, coomer, caching, mount, serving >>
not_fabric == << engine, retrying, filing, solving, storing, client, hls, deduping, album, coomer, caching, mount, serving >>
not_retrying == << engine, fabric, filing, solving, storing, client, hls, deduping, album, coomer, caching, mount, serving >>
not_filing == << engine, fabric, retrying, solving, storing, client, hls, deduping, album, coomer, caching, mount, serving >>
not_solving == << engine, fabric, retrying, filing, storing, client, hls, deduping, album, coomer, caching, mount, serving >>

\* the engine's variables that the storage manager does not touch
engine_rest == << ignore_history, max_simultaneous_downloads, max_slots_per_domain,
                max_concurrent_downloads, processed_items, waiting_items, semaphore,
                session_limit, locked_files, history, pc, dl, item, m3u8, seg, called,
                fresh, result >>
not_storing == << engine_rest, fabric, retrying, filing, solving, client, hls, deduping, album, coomer, caching, mount, serving >>
not_deduping == << engine, fabric, retrying, filing, solving, storing, client, hls, album, coomer, caching, mount, serving >>
not_hls == << engine, fabric, retrying, filing, solving, storing, client, deduping, album, coomer, caching, mount, serving >>
not_album == << engine, fabric, retrying, filing, solving, storing, client, hls, deduping, coomer, caching, mount, serving >>
not_client == << engine, fabric, retrying, filing, solving, storing, hls, deduping, album, coomer, caching, mount, serving >>
not_caching == << engine, fabric, retrying, filing, solving, storing, client, hls, deduping, album, coomer, mount, serving >>
not_coomer == << engine, fabric, retrying, filing, solving, storing, client, hls, deduping, album, caching, mount, serving >>
not_serving == << engine, fabric, retrying, filing, solving, storing, client, hls, deduping, album, coomer, caching, mount >>
not_mount == << engine, fabric, retrying, filing, solving, storing, client, hls, deduping, album, coomer, caching, serving >>

retry_inputs == << job, job_m3u8, download_attempts, disable_download_attempt_limit >>

config == << ignore_history, max_simultaneous_downloads, max_slots_per_domain,
             max_concurrent_downloads >>

\* ------------------------------------------------------- download manager

\* DownloadManager.get_download_limit: the extractor's own limit when it sets
\* one, else max_simultaneous_downloads_per_domain.
get_download_limit(domain) ==
    IF max_concurrent_downloads[domain] # 0
    THEN max_concurrent_downloads[domain]
    ELSE max_slots_per_domain

\* DownloadManager.register / get_download_semaphore: the semaphore object kept
\* for a domain; every domain without a limit of its own gets default_semaphore.
get_download_semaphore(domain) ==
    IF max_concurrent_downloads[domain] # 0 THEN domain ELSE "default"

\* Mutant of startup_semaphore: the Downloader takes the semaphore object that
\* DownloadManager.register keeps for the domain, which domains share.
startup_semaphore_shared(domain) ==
    IF max_concurrent_downloads[domain] # 0 THEN domain ELSE "default"

\* Downloader.startup: self._semaphore is a new Semaphore of this Downloader.
startup_semaphore(domain) == domain

Semaphores == Domains \cup {"default"}

\* The capacity a semaphore object was built with.
capacity(s) ==
    IF s = "default" THEN max_slots_per_domain ELSE get_download_limit(s)

\* FileLocksVault.get_lock(key): Downloader.limiter passes the media_item itself.
lock_key(media_item) == media_item

\* Downloader.was_processed_before
was_processed_before(d, media_item) ==
    media_item.url \in processed_items[d] /\ ~ignore_history

\* ------------------------------------------------------------ download_hls

\* str.startswith("#") on the lines of the model
startswith_hash(line) == line \in {"#EXTM3U"}

\* get_valid_segment_lines: `segment_name or not segment_name.startswith("#")`
is_valid_segment_line(line) == line # "" \/ ~startswith_hash(line)

RECURSIVE get_segment_names(_)
get_segment_names(lines) ==
    IF lines = << >> THEN << >>
    ELSE IF is_valid_segment_line(Head(lines))
         THEN << Head(lines) >> \o get_segment_names(Tail(lines))
         ELSE get_segment_names(Tail(lines))

n_segments(content) == Len(get_segment_names(content))

NoSegs == [k \in 1..MaxLines |-> "none"]

\* ------------------------------------------------------------ storage

\* StorageManager._has_sufficient_space, on the value held for the mount
has_sufficient_space(free) == free > required_free_space

\* --------------------------------------------------------- client manager

\* The domain tags callers pass: one that is a key of request_limiters and of
\* download_spacer, one that is a key of request_limiters only, one of neither.
FabricDomains == {"coomer", "gofile", "imgur"}

\* ClientManager.__init__, lines 75-83: max_rate of each bucket of
\* request_limiters (the time period is the unit of Leak).
request_limiter_rates ==
    [ bunkrr |-> 5, cyberdrop |-> 5, coomer |-> 1, kemono |-> 1,
      pixeldrain |-> 10, gofile |-> 100, other |-> 25 ]

\* ClientManager.__init__, lines 85-93: download_spacer, in tenths of a second.
download_spacer ==
    [ bunkr |-> 5, bunkrr |-> 5, cyberdrop |-> 0, cyberfile |-> 0,
      pixeldrain |-> 0, coomer |-> 5, kemono |-> 5 ]

Buckets == DOMAIN request_limiter_rates \cup FabricDomains \cup {"global"}

Min(a, b) == IF a < b THEN a ELSE b

\* AsyncLimiter.max_rate of a bucket; a bucket registered later, and the global
\* bucket (rate_limiting_options.rate_limit), get MaxRate.
max_rate(b) ==
    IF b \in DOMAIN request_limiter_rates
    THEN Min(request_limiter_rates[b], MaxRate)
    ELSE MaxRate

\* ClientManager.get_download_spacer
get_download_spacer(key) ==
    IF key \in DOMAIN download_spacer THEN download_spacer[key] ELSE 1

\* ClientManager.get_request_limiter: `self.download_spacer.get(domain, default)`
\* with default = request_limiters["other"]. The value is a float of
\* download_spacer or the bucket "other".
get_request_limiter(domain) ==
    IF domain \in DOMAIN download_spacer
    THEN << "float", download_spacer[domain] >>
    ELSE << "limiter", "other" >>

NoLimiter == << "none", 0 >>

\* ScraperClient's request methods
ScraperMethods == {"get_soup", "get_json", "get_text", "get_head", "post_data"}

FabricInit ==
    /\ request_limiters = DOMAIN request_limiter_rates
    /\ request_semaphore = 0
    /\ level = [b \in Buckets |-> 0]
    /\ fpc = [c \in Callers |-> "idle"]
    /\ fkind = [c \in Callers |-> "none"]
    /\ fdomain = [c \in Callers |-> "other"]
    /\ got = [c \in Callers |-> NoLimiter]

\* ------------------------------------------- retry and exception_wrapper

MaxAttempts == 3   \* largest download_attempts
MaxBytes == 2      \* largest size of a partial file
MaxHandled == 1    \* media items a Downloader handles before the last one

\* downloader.py, lines 32-39; statuses are written as strings, as is every
\* `status` / `ui_failure` below (a transient error's is its type name).
KNOWN_BAD_URLS ==
    ("https://i.imgur.com/removed.png" :> "404") @@
    ("https://saint2.su/assets/notfound.gif" :> "404") @@
    ("https://bnkr.b-cdn.net/maintenance-vid.mp4" :> "503") @@
    ("https://bnkr.b-cdn.net/maintenance.mp4" :> "503") @@
    ("https://c.bunkr-cache.se/maintenance-vid.mp4" :> "503") @@
    ("https://c.bunkr-cache.se/maintenance.jpg" :> "503")

\* the media items given to download: the known-bad urls and an ordinary one
JobUrls == DOMAIN KNOWN_BAD_URLS \cup {"https://example.host/a.jpg"}
JobItems == { [url |-> u, filename |-> "f.jpg"] : u \in JobUrls }
Filenames == { i.filename : i \in Items \cup JobItems }

\* DownloadError(status, message, origin, retry)
DownloadError(status, retry) == [kind |-> "DownloadError", status |-> status, retry |-> retry]

\* DownloadError(status, ...) built without `retry`: not retryable
DownloadErrorDefault(status) == DownloadError(status, FALSE)

\* any other exception type
Exception(kind) == [kind |-> kind, status |-> kind, retry |-> FALSE]

NoError == [kind |-> "none", status |-> "", retry |-> FALSE]

\* exception_wrapper, line 90: re-raised as they are
Reraised == {"DownloadError", "ClientResponseError", "InvalidContentTypeError",
             "ClientConnectorError"}

\* exception_wrapper, lines 93-99: mapped to a DownloadError
Transient == {"ConnectionResetError", "FileNotFoundError", "PermissionError",
              "TimeoutError", "ClientError"}

\* what client.download_file can raise
BodyErrors ==
    {DownloadError("500", TRUE), DownloadError("404", FALSE)}
        \cup { Exception(k) : k \in (Reraised \ {"DownloadError"}) \cup Transient }

RetryInit ==
    /\ job = NoItem
    /\ job_m3u8 = << >>
    /\ download_attempts = 1
    /\ disable_download_attempt_limit = FALSE
    /\ current_attempt = 0
    /\ rpc = "idle"
    /\ bodies = 0
    /\ errors = 0
    /\ raised = 0
    /\ caught = "none"
    /\ last_error = NoError
    /\ only_retryable = FALSE
    /\ current_attempt_filesize = [f \in Filenames |-> NoEntry]
    /\ partial_file = NoEntry
    /\ prev_size = NoEntry
    /\ waited = FALSE
    /\ space_checked = FALSE
    /\ requests = 0
    /\ complete_file = FALSE
    /\ completed = FALSE

\* ------------------------------------------- download_file (utils/downloaders.py)

FileLen == 2       \* bytes of the resource
MaxTries == 2      \* largest settings.download_attempts
MaxSessions == 2   \* how many times the program is started again

\* the bytes the server holds for the url
Content == [i \in 1..FileLen |-> i]

FileInit ==
    /\ settings_download_attempts = 1
    /\ temp_exists = FALSE
    /\ temp_file = << >>
    /\ final_exists = FALSE
    /\ final_file = << >>
    /\ dpc = "idle"
    /\ times_tried = 0
    /\ resume_point = 0
    /\ chunks = << >>
    /\ sessions = 0

\* ------------------------------------------- ScraperClient and Flaresolverr

SolverInit ==
    /\ enabled = TRUE
    /\ session_id = FALSE
    /\ spc = [c \in Callers |-> "idle"]
    /\ smethod = [c \in Callers |-> "none"]
    /\ retry_param = [c \in Callers |-> TRUE]
    /\ cache_disabled = [c \in Callers |-> FALSE]
    /\ target_requests = [c \in Callers |-> 0]
    /\ solver_calls = [c \in Callers |-> 0]
    /\ challenged = [c \in Callers |-> 0]
    /\ ended_with = [c \in Callers |-> "none"]

\* ------------------------------------------------------------------- Init

MaxIterations == 2  \* iterations of the polling loop that are counted

\* StorageManager.__init__, lines 23-33: no call is in progress, _updated is
\* a new Event, the polling task is created and close() has not been called.
StoringInit ==
    /\ cpc = [c \in Callers |-> "idle"]
    /\ no_pause_arg = [c \in Callers |-> FALSE]
    /\ pass_no_pause = [c \in Callers |-> FALSE]
    /\ cleared = [c \in Callers |-> 0]
    /\ seen = [c \in Callers |-> NoEntry]
    /\ updated = FALSE
    /\ iterations = 0
    /\ closing = "idle"

\* no response has been checked, no answer of the solver read, an empty jar
NoResponse == [status |-> 0]
NoOutcome == [kind |-> "none", status |-> 0, cause |-> "none"]

ClientInit ==
    /\ http_response = NoResponse
    /\ http_outcome = NoOutcome
    /\ fs_resp = NoResponse
    /\ fs_outcome = NoOutcome
    /\ cookies = {}

MaxHlsLines == 2   \* lines of the playlist given to download_hls

\* download_hls has not been called
HlsInit ==
    /\ hpc = "idle"
    /\ hls_content = << >>
    /\ hls_segments = << >>
    /\ hls_n_segments = 0
    /\ seg_result = << >>
    /\ hls_error = "none"
    /\ concat_calls = 0
    /\ concat_paths = {}

MaxUpdateCalls == 2 \* calls of update_db_and_retrive_hash in one behaviour

\* the paths of the model: three media files and a partial file
Paths == {"a.jpg", "b.jpg", "c.jpg"}
AllPaths == Paths \cup {"d.part"}

\* Hashing (utils/data_enums_classes/hash.py)
HashingModes == {"OFF", "IN_PLACE", "POST_DOWNLOAD"}

NoFile == [path |-> "", kind |-> "none"]

\* HashClient.__init__, lines 38-44, before anything was downloaded: default
\* options, an empty download folder and an empty hash table
DedupeInit ==
    /\ hashing = "IN_PLACE"
    /\ auto_dedupe = TRUE
    /\ add_md5_hash = FALSE
    /\ add_sha256_hash = FALSE
    /\ send_deleted_to_trash = TRUE
    /\ disk = [p \in AllPaths |-> "absent"]
    /\ hash_table = << >>
    /\ completed_downloads = {}
    /\ hashed_media_items = {}
    /\ hashes_dict = {}
    /\ removed_files = 0
    /\ hash_file_calls = 0
    /\ last_file = NoFile
    /\ last_written = {}
    /\ update_calls = 0
    /\ dpc_cleanup = "idle"
    /\ delete_failed = {}

\* a scrape item that ImgurCrawler.album was not called for yet
AlbumInit ==
    /\ apc = "idle"
    /\ children = 0
    /\ children_limit = 0
    /\ images = 0
    /\ emitted = << >>
    /\ album_error = "none"

NoUrl == [parts |-> {}, name |-> "", q |-> FALSE]

\* a scrape item that CoomerCrawler.fetch was not called for yet
CoomerInit ==
    /\ fetch_pc = "idle"
    /\ scrape_url = NoUrl
    /\ handlers_run = << >>

ScraperCalls == 1..MaxScrapes

\* the shared cache as CacheManager makes it, no scraper call made yet
CachingInit ==
    /\ disabled = FALSE
    /\ ccpc = [c \in ScraperCalls |-> "idle"]
    /\ disabled_arg = [c \in ScraperCalls |-> FALSE]

\* the mount of the download folder at startup, with free space
MountInit ==
    /\ mount_free = MaxFree

\* a Downloader that has handled no media item yet
ServingInit ==
    /\ handled_items = {}

EngineInit ==
    /\ RUNNING = TRUE
    /\ ignore_history \in BOOLEAN
    /\ max_simultaneous_downloads \in 1..MaxLimit
    /\ max_slots_per_domain \in 1..MaxLimit
    /\ max_concurrent_downloads \in { [d \in Domains |-> IF d = "coomer" THEN k ELSE 0] : k \in 0..1 }
    /\ processed_items = [d \in Domains |-> {}]
    /\ waiting_items = [d \in Domains |-> 0]
    /\ semaphore = [s \in Semaphores |-> 0]
    /\ session_limit = 0
    /\ locked_files = {}
    /\ history = [d \in Domains |-> [u \in {i.url : i \in Items} |-> "absent"]]
    /\ pc = [t \in Tasks |-> "idle"]
    /\ dl = [t \in Tasks |-> "coomer"]
    /\ item = [t \in Tasks |-> NoItem]
    /\ m3u8 = [t \in Tasks |-> << >>]
    /\ seg = [t \in Tasks |-> NoSegs]
    /\ called = [t \in Tasks |-> 0]
    /\ fresh = [t \in Tasks |-> FALSE]
    /\ result = [t \in Tasks |-> FALSE]
    /\ free_space = NoEntry
    /\ loop = "waiting"

Init ==
    /\ EngineInit
    /\ FabricInit
    /\ ServingInit
    /\ MountInit
    /\ CachingInit
    /\ CoomerInit
    /\ AlbumInit
    /\ DedupeInit
    /\ HlsInit
    /\ ClientInit
    /\ StoringInit
    /\ RetryInit
    /\ FileInit
    /\ SolverInit

\* ------------------------------------------------------- Downloader.limiter

\* with_limiter(run)(media_item, m3u8_content) is called on the Downloader of
\* domain d. Calls are numbered in the order they are made.
Run(t, d, media_item, content) ==
    /\ pc[t] = "idle"
    /\ \A u \in Tasks : u < t => pc[u] # "idle"
    /\ pc' = [pc EXCEPT ![t] = "wait_running"]
    /\ dl' = [dl EXCEPT ![t] = d]
    /\ item' = [item EXCEPT ![t] = media_item]
    /\ m3u8' = [m3u8 EXCEPT ![t] = content]
    /\ fresh' = [fresh EXCEPT ![t] = media_item.url \notin processed_items[d]]
    /\ UNCHANGED << RUNNING, config, processed_items, waiting_items, semaphore,
                    session_limit, locked_files, history, seg, called, result,
                    free_space, loop >>
    /\ UNCHANGED not_engine

\* limiter, lines 161-164: RUNNING.wait() returned; mark_incomplete is awaited.
LimiterStart(t) ==
    /\ pc[t] = "wait_running"
    /\ RUNNING
    /\ waiting_items' = [waiting_items EXCEPT ![dl[t]] = @ + 1]
    /\ pc' = [pc EXCEPT ![t] = "mark_incomplete"]
    /\ UNCHANGED << RUNNING, config, processed_items, semaphore, session_limit,
                    locked_files, history, dl, item, m3u8, seg, called, fresh,
                    result, free_space, loop >>
    /\ UNCHANGED not_engine

\* Mutant of MarkIncompleteDone: the semaphore is awaited without the ledger
\* having been written.
MarkIncompleteDone_unmarked(t) ==
    /\ pc[t] = "mark_incomplete"
    /\ pc' = [pc EXCEPT ![t] = "wait_sem"]
    /\ UNCHANGED << RUNNING, config, processed_items, waiting_items, semaphore,
                    session_limit, locked_files, history, dl, item, m3u8, seg,
                    called, fresh, result, free_space, loop >>
    /\ UNCHANGED not_engine

\* limiter, lines 164-166: mark_incomplete returned; self._semaphore is awaited.
MarkIncompleteDone(t) ==
    /\ pc[t] = "mark_incomplete"
    /\ history' = [history EXCEPT ![dl[t]][item[t].url] =
                       IF @ = "absent" THEN "incomplete" ELSE @]
    /\ pc' = [pc EXCEPT ![t] = "wait_sem"]
    /\ UNCHANGED << RUNNING, config, processed_items, waiting_items, semaphore,
                    session_limit, locked_files, dl, item, m3u8, seg, called,
                    fresh, result, free_space, loop >>
    /\ UNCHANGED not_engine

\* limiter, lines 166-167: a permit of self._semaphore; RUNNING is awaited again.
AcquireSemaphore(t) ==
    LET s == startup_semaphore(dl[t]) IN
    /\ pc[t] = "wait_sem"
    /\ semaphore[s] < capacity(s)
    /\ semaphore' = [semaphore EXCEPT ![s] = @ + 1]
    /\ pc' = [pc EXCEPT ![t] = "wait_running2"]
    /\ UNCHANGED << RUNNING, config, processed_items, waiting_items, session_limit,
                    locked_files, history, dl, item, m3u8, seg, called, fresh,
                    result, free_space, loop >>
    /\ UNCHANGED not_engine

\* limiter, lines 167-171: the url path is recorded as processed; the global
\* download semaphore is awaited.
AfterSemaphore(t) ==
    /\ pc[t] = "wait_running2"
    /\ RUNNING
    /\ waiting_items' = [waiting_items EXCEPT ![dl[t]] = @ - 1]
    /\ processed_items' = [processed_items EXCEPT ![dl[t]] = @ \cup {item[t].url}]
    /\ pc' = [pc EXCEPT ![t] = "wait_session_limit"]
    /\ UNCHANGED << RUNNING, config, semaphore, session_limit, locked_files,
                    history, dl, item, m3u8, seg, called, fresh, result,
                    free_space, loop >>
    /\ UNCHANGED not_engine

\* limiter, lines 171-174: a permit of download_session_limit; the file lock is awaited.
AcquireSessionLimit(t) ==
    /\ pc[t] = "wait_session_limit"
    /\ session_limit < max_simultaneous_downloads
    /\ session_limit' = session_limit + 1
    /\ pc' = [pc EXCEPT ![t] = "wait_lock"]
    /\ UNCHANGED << RUNNING, config, processed_items, waiting_items, semaphore,
                    locked_files, history, dl, item, m3u8, seg, called, fresh,
                    result, free_space, loop >>
    /\ UNCHANGED not_engine

\* Mutant of ReleaseAll: the Downloader's permit is not given back.
ReleaseAll_keeping_permit(t, held) ==
    /\ locked_files' = held \ {lock_key(item[t])}
    /\ session_limit' = session_limit - 1
    /\ UNCHANGED semaphore

\* What leaving the limiter scope does to the gates of run() call t, given the
\* set of held file locks: the lock, the global permit and the Downloader's permit.
ReleaseAll(t, held) ==
    /\ locked_files' = held \ {lock_key(item[t])}
    /\ session_limit' = session_limit - 1
    /\ semaphore' = [semaphore EXCEPT ![startup_semaphore(dl[t])] = @ - 1]

\* run() returns value r: the limiter scope is left.
Return(t, r) ==
    /\ pc' = [pc EXCEPT ![t] = "done"]
    /\ result' = [result EXCEPT ![t] = r]
    /\ ReleaseAll(t, locked_files)

\* limiter line 174 and run, lines 188-198: the file lock is taken and the body
\* of run() starts: it returns False for a processed url path, else it calls
\* download_hls (non-empty m3u8_content) or download, which run up to their
\* first await. download_hls, lines 257-259, raises at once when ffmpeg is not
\* available (error_handling_wrapper logs it; None is returned).
AcquireFileLock(t, ffmpeg_available) ==
    /\ pc[t] = "wait_lock"
    /\ lock_key(item[t]) \notin locked_files
    /\ IF was_processed_before(dl[t], item[t])
       THEN /\ pc' = [pc EXCEPT ![t] = "done"]
            /\ result' = [result EXCEPT ![t] = FALSE]
            /\ ReleaseAll(t, locked_files \cup {lock_key(item[t])})
            /\ UNCHANGED << called, seg >>
       ELSE IF m3u8[t] # << >> /\ ~ffmpeg_available
       THEN /\ called' = [called EXCEPT ![t] = @ + 1]
            /\ pc' = [pc EXCEPT ![t] = "done"]
            /\ result' = [result EXCEPT ![t] = FALSE]
            /\ ReleaseAll(t, locked_files \cup {lock_key(item[t])})
            /\ UNCHANGED seg
       ELSE /\ called' = [called EXCEPT ![t] = @ + 1]
            /\ locked_files' = locked_files \cup {lock_key(item[t])}
            /\ UNCHANGED << session_limit, semaphore, result >>
            /\ IF m3u8[t] # << >>
               THEN /\ pc' = [pc EXCEPT ![t] = "hls_gather"]
                    /\ seg' = [seg EXCEPT ![t] =
                                 [k \in 1..MaxLines |->
                                    IF k <= n_segments(m3u8[t])
                                    THEN "dl_wait_running" ELSE "none"]]
               ELSE /\ pc' = [pc EXCEPT ![t] = "dl_wait_running"]
                    /\ UNCHANGED seg
    /\ UNCHANGED << RUNNING, config, processed_items, waiting_items, history,
                    dl, item, m3u8, fresh, free_space, loop >>
    /\ UNCHANGED not_engine

\* ------------------------------------------------------ Downloader.download

\* What download_file can end with: True (downloaded), False (the file is
\* already there), a DownloadError the retry wrapper repeats the body for, or an
\* error that ends the download (error_handling_wrapper logs it; None is returned).
Outcomes == {"downloaded", "exists", "retry", "error"}

\* StorageManager.check_free_space(media_item) as called by
\* check_file_can_download, on the value held for the mount after
\* _has_sufficient_space has filled it in: "ok", or "pause" (RUNNING is cleared
\* and awaited), or "raise" (InsufficientFreeSpaceError) when no_pause is set.
check_free_space(free, no_pause) ==
    IF has_sufficient_space(free) THEN "ok"
    ELSE IF ~no_pause THEN "pause"
    ELSE "raise"

\* _has_sufficient_space, lines 73-78: a mount seen for the first time is
\* measured now; v is what disk_usage reports.
queried(v) == IF free_space = NoEntry THEN v ELSE free_space

\* download, line 245: RUNNING.wait() returned; get_duration is awaited.
DlWaitRunning(t) ==
    /\ pc[t] = "dl_wait_running"
    /\ RUNNING
    /\ pc' = [pc EXCEPT ![t] = "get_duration"]
    /\ UNCHANGED << RUNNING, config, processed_items, waiting_items, semaphore,
                    session_limit, locked_files, history, dl, item, m3u8, seg,
                    called, fresh, result, free_space, loop >>
    /\ UNCHANGED not_engine

\* download, lines 247-249: get_duration returned; check_file_can_download
\* checks the free space, the file type and the duration; then download_file
\* is called.
GetDurationDone(t, v, allowed) ==
    /\ pc[t] = "get_duration"
    /\ free_space' = queried(v)
    /\ LET check == check_free_space(queried(v), FALSE) IN
       IF check = "pause"
       THEN /\ RUNNING' = FALSE
            /\ pc' = [pc EXCEPT ![t] = "space_paused"]
            /\ UNCHANGED << result, locked_files, session_limit, semaphore >>
       ELSE IF allowed
       THEN /\ pc' = [pc EXCEPT ![t] = "requesting"]
            /\ UNCHANGED << RUNNING, result, locked_files, session_limit, semaphore >>
       ELSE /\ Return(t, FALSE)
            /\ UNCHANGED RUNNING
    /\ UNCHANGED << config, processed_items, waiting_items, history, dl, item,
                    m3u8, seg, called, fresh, loop >>
    /\ UNCHANGED not_engine

\* check_free_space, lines 48-50: RUNNING is set again; the check is repeated
\* with no_pause=True.
SpaceResumed(t, allowed) ==
    /\ pc[t] = "space_paused"
    /\ RUNNING
    /\ IF check_free_space(free_space, TRUE) = "ok" /\ allowed
       THEN /\ pc' = [pc EXCEPT ![t] = "requesting"]
            /\ UNCHANGED << result, locked_files, session_limit, semaphore >>
       ELSE Return(t, FALSE)
    /\ UNCHANGED << RUNNING, config, processed_items, waiting_items, history, dl,
                    item, m3u8, seg, called, fresh, free_space, loop >>
    /\ UNCHANGED not_engine

\* download, lines 249-251, and retry: download_file has ended.
RequestDone(t, outcome) ==
    /\ pc[t] = "requesting"
    /\ IF outcome = "retry"
       THEN /\ pc' = [pc EXCEPT ![t] = "dl_wait_running"]
            /\ UNCHANGED << result, locked_files, session_limit, semaphore >>
       ELSE Return(t, outcome = "downloaded")
    /\ history' = IF outcome = "downloaded"
                  THEN [history EXCEPT ![dl[t]][item[t].url] = "complete"]
                  ELSE history
    /\ UNCHANGED << RUNNING, config, processed_items, waiting_items, dl, item,
                    m3u8, seg, called, fresh, free_space, loop >>
    /\ UNCHANGED not_engine

\* -------------------------------------------------- Downloader.download_hls
\* make_download_task: download_segment() awaits self.download(seg_media_item),
\* the decorated download, outside any limiter scope.

SegWaitRunning(t, k) ==
    /\ pc[t] = "hls_gather"
    /\ seg[t][k] = "dl_wait_running"
    /\ RUNNING
    /\ seg' = [seg EXCEPT ![t][k] = "get_duration"]
    /\ UNCHANGED << RUNNING, config, processed_items, waiting_items, semaphore,
                    session_limit, locked_files, history, pc, dl, item, m3u8,
                    called, fresh, result, free_space, loop >>
    /\ UNCHANGED not_engine

SegGetDurationDone(t, k, v, allowed) ==
    /\ pc[t] = "hls_gather"
    /\ seg[t][k] = "get_duration"
    /\ free_space' = queried(v)
    /\ LET check == check_free_space(queried(v), FALSE) IN
       IF check = "pause"
       THEN /\ RUNNING' = FALSE
            /\ seg' = [seg EXCEPT ![t][k] = "space_paused"]
       ELSE /\ seg' = [seg EXCEPT ![t][k] = IF allowed THEN "requesting" ELSE "done"]
            /\ UNCHANGED RUNNING
    /\ UNCHANGED << config, processed_items, waiting_items, semaphore, session_limit,
                    locked_files, history, pc, dl, item, m3u8, called, fresh,
                    result, loop >>
    /\ UNCHANGED not_engine

SegSpaceResumed(t, k, allowed) ==
    /\ pc[t] = "hls_gather"
    /\ seg[t][k] = "space_paused"
    /\ RUNNING
    /\ seg' = [seg EXCEPT ![t][k] =
                 IF check_free_space(free_space, TRUE) = "ok" /\ allowed
                 THEN "requesting" ELSE "done"]
    /\ UNCHANGED << RUNNING, config, processed_items, waiting_items, semaphore,
                    session_limit, locked_files, history, pc, dl, item, m3u8,
                    called, fresh, result, free_space, loop >>
    /\ UNCHANGED not_engine

SegRequestDone(t, k, outcome) ==
    /\ pc[t] = "hls_gather"
    /\ seg[t][k] = "requesting"
    /\ seg' = [seg EXCEPT ![t][k] = IF outcome = "retry" THEN "dl_wait_running" ELSE "done"]
    /\ UNCHANGED << RUNNING, config, processed_items, waiting_items, semaphore,
                    session_limit, locked_files, history, pc, dl, item, m3u8,
                    called, fresh, result, free_space, loop >>
    /\ UNCHANGED not_engine

\* download_segment() has no return statement: every entry of `results` is None.
n_successful(t) == 0

\* download_hls, lines 313-328: gather has returned. A count that differs from
\* n_segments raises "HLS Seg Error"; else ffmpeg concatenates (concat_ok is
\* its success) and the completion is recorded.
HlsGatherDone(t, concat_ok) ==
    /\ pc[t] = "hls_gather"
    /\ \A k \in 1..MaxLines : seg[t][k] \in {"none", "done"}
    /\ seg' = [seg EXCEPT ![t] = NoSegs]
    /\ LET ok == n_successful(t) = n_segments(m3u8[t]) /\ concat_ok IN
       /\ Return(t, ok)
       /\ history' = IF ok THEN [history EXCEPT ![dl[t]][item[t].url] = "complete"]
                     ELSE history
    /\ UNCHANGED << RUNNING, config, processed_items, waiting_items, dl, item,
                    m3u8, called, fresh, free_space, loop >>
    /\ UNCHANGED not_engine

\* ---------------------------------------------------------- StorageManager

\* _check_free_space_loop, lines 91-97: RUNNING.wait() returned; the mounts in
\* use are queried in worker threads (none in use: straight to the sleep).
LoopStart ==
    /\ loop = "waiting"
    /\ RUNNING
    /\ free_space # NoEntry
    /\ loop' = "querying"
    /\ UNCHANGED << RUNNING, config, processed_items, waiting_items, semaphore,
                    session_limit, locked_files, history, pc, dl, item, m3u8, seg,
                    called, fresh, result, free_space >>
    /\ UNCHANGED not_engine

\* _check_free_space_loop, lines 97-103: the readings are stored; sleep.
LoopQueryDone(v) ==
    /\ loop = "querying"
    /\ free_space' = v
    /\ loop' = "waiting"
    /\ UNCHANGED << RUNNING, config, processed_items, waiting_items, semaphore,
                    session_limit, locked_files, history, pc, dl, item, m3u8, seg,
                    called, fresh, result >>
    /\ UNCHANGED not_engine

\* RunState is set again (a user command of the UI).
Resume ==
    /\ ~RUNNING
    /\ RUNNING' = TRUE
    /\ UNCHANGED << config, processed_items, waiting_items, semaphore,
                    session_limit, locked_files, history, pc, dl, item, m3u8, seg,
                    called, fresh, result, free_space, loop >>
    /\ UNCHANGED not_engine

\* ------------------------------------------------------------------- Spec

Next ==
    \/ \E t \in Tasks, d \in Domains, i \in Items, c \in Playlists : Run(t, d, i, c)
    \/ \E t \in Tasks : LimiterStart(t)
    \/ \E t \in Tasks : MarkIncompleteDone(t)
    \/ \E t \in Tasks : AcquireSemaphore(t)
    \/ \E t \in Tasks : AfterSemaphore(t)
    \/ \E t \in Tasks : AcquireSessionLimit(t)
    \/ \E t \in Tasks, f \in BOOLEAN : AcquireFileLock(t, f)
    \/ \E t \in Tasks : DlWaitRunning(t)
    \/ \E t \in Tasks, v \in FreeVals, a \in BOOLEAN : GetDurationDone(t, v, a)
    \/ \E t \in Tasks, a \in BOOLEAN : SpaceResumed(t, a)
    \/ \E t \in Tasks, o \in Outcomes : RequestDone(t, o)
    \/ \E t \in Tasks, k \in 1..MaxLines : SegWaitRunning(t, k)
    \/ \E t \in Tasks, k \in 1..MaxLines, v \in FreeVals, a \in BOOLEAN :
          SegGetDurationDone(t, k, v, a)
    \/ \E t \in Tasks, k \in 1..MaxLines, a \in BOOLEAN : SegSpaceResumed(t, k, a)
    \/ \E t \in Tasks, k \in 1..MaxLines, o \in Outcomes : SegRequestDone(t, k, o)
    \/ \E t \in Tasks, ok \in BOOLEAN : HlsGatherDone(t, ok)
    \/ LoopStart
    \/ \E v \in FreeVals : LoopQueryDone(v)
    \/ Resume

Spec == Init /\ [][Next]_vars

\* ====================================================== the rate-limit fabric

\* the caller holds a permit of global_request_semaphore
HoldsRequestSemaphore(c) == fpc[c] \in {"wait_global_rate", "wait_domain_rate", "body"}

\* ClientManager.register_limiter, at startup: `assert domain not in request_limiters`
RegisterLimiter(domain) ==
    /\ \A c \in Callers : fpc[c] = "idle"
    /\ domain \notin request_limiters
    /\ request_limiters' = request_limiters \cup {domain}
    /\ UNCHANGED << request_semaphore, level, fpc, fkind, fdomain, got, not_fabric >>

\* limiter(domain), lines 121-124, or download_limiter(domain), lines 131-133,
\* is entered: limiter looks the domain's bucket up and awaits the semaphore;
\* download_limiter sleeps first.
LimiterCall(c, kind, domain) ==
    /\ fpc[c] = "idle"
    /\ \A b \in Callers : b < c => fpc[b] # "idle"
    /\ kind \in {"limiter", "download_limiter"}
    /\ fkind' = [fkind EXCEPT ![c] = kind]
    /\ fdomain' = [fdomain EXCEPT ![c] = domain]
    /\ IF kind = "limiter"
       THEN /\ got' = [got EXCEPT ![c] = get_request_limiter(domain)]
            /\ fpc' = [fpc EXCEPT ![c] = "wait_semaphore"]
       ELSE /\ fpc' = [fpc EXCEPT ![c] = "sleeping"]
            /\ UNCHANGED got
    /\ UNCHANGED << request_limiters, request_semaphore, level, not_fabric >>

\* download_limiter, lines 133-134: the sleep of global_download_delay +
\* get_download_spacer(domain) is over; limiter(domain) is entered.
SleepDone(c) ==
    /\ fpc[c] = "sleeping"
    /\ got' = [got EXCEPT ![c] = get_request_limiter(fdomain[c])]
    /\ fpc' = [fpc EXCEPT ![c] = "wait_semaphore"]
    /\ UNCHANGED << request_limiters, request_semaphore, level, fkind, fdomain, not_fabric >>

\* Mutant of AcquireRequestSemaphore: the scope is entered whatever the
\* number of permits taken.
AcquireRequestSemaphore_unbounded(c) ==
    /\ fpc[c] = "wait_semaphore"
    /\ request_semaphore' = request_semaphore + 1
    /\ fpc' = [fpc EXCEPT ![c] = "wait_global_rate"]
    /\ UNCHANGED << request_limiters, level, fkind, fdomain, got, not_fabric >>

\* limiter, line 124: a permit of global_request_semaphore.
AcquireRequestSemaphore(c) ==
    /\ fpc[c] = "wait_semaphore"
    /\ request_semaphore < MaxRequests
    /\ request_semaphore' = request_semaphore + 1
    /\ fpc' = [fpc EXCEPT ![c] = "wait_global_rate"]
    /\ UNCHANGED << request_limiters, level, fkind, fdomain, got, not_fabric >>

\* Mutant of AcquireGlobalRate: a failure to enter the domain's gate leaves
\* the scope without giving the semaphore's permit back.
AcquireGlobalRate_leaking(c) ==
    /\ fpc[c] = "wait_global_rate"
    /\ level["global"] < max_rate("global")
    /\ level' = [level EXCEPT !["global"] = @ + 1]
    /\ fpc' = [fpc EXCEPT ![c] = IF got[c][1] = "limiter" THEN "wait_domain_rate" ELSE "failed"]
    /\ UNCHANGED << request_limiters, request_semaphore, fkind, fdomain, got, not_fabric >>

\* limiter, lines 125-126: a token of global_request_limiter; then the third
\* context manager is entered. A value that is no context manager (a float)
\* raises TypeError, and the two gates entered are left again.
AcquireGlobalRate(c) ==
    /\ fpc[c] = "wait_global_rate"
    /\ level["global"] < max_rate("global")
    /\ level' = [level EXCEPT !["global"] = @ + 1]
    /\ IF got[c][1] = "limiter"
       THEN /\ fpc' = [fpc EXCEPT ![c] = "wait_domain_rate"]
            /\ UNCHANGED request_semaphore
       ELSE /\ fpc' = [fpc EXCEPT ![c] = "failed"]
            /\ request_semaphore' = request_semaphore - 1
    /\ UNCHANGED << request_limiters, fkind, fdomain, got, not_fabric >>

\* limiter, lines 126-128: a token of the domain's bucket; the body runs.
AcquireDomainRate(c) ==
    /\ fpc[c] = "wait_domain_rate"
    /\ level[got[c][2]] < max_rate(got[c][2])
    /\ level' = [level EXCEPT ![got[c][2]] = @ + 1]
    /\ fpc' = [fpc EXCEPT ![c] = "body"]
    /\ UNCHANGED << request_limiters, request_semaphore, fkind, fdomain, got, not_fabric >>

\* limiter, line 128: the body returns or raises; the gates are left.
ExitScope(c) ==
    /\ fpc[c] = "body"
    /\ request_semaphore' = request_semaphore - 1
    /\ fpc' = [fpc EXCEPT ![c] = "done"]
    /\ UNCHANGED << request_limiters, level, fkind, fdomain, got, not_fabric >>

\* The caller's task is cancelled at one of its awaits: the sleep, the wait for
\* a gate, the body. CancelledError leaves the gates entered.
Cancel(c) ==
    /\ fpc[c] \in {"sleeping", "wait_semaphore", "wait_global_rate", "wait_domain_rate", "body"}
    /\ request_semaphore' = IF HoldsRequestSemaphore(c)
                            THEN request_semaphore - 1 ELSE request_semaphore
    /\ fpc' = [fpc EXCEPT ![c] = "cancelled"]
    /\ UNCHANGED << request_limiters, level, fkind, fdomain, got, not_fabric >>

\* AsyncLimiter: time passes and a bucket leaks one token.
Leak(b) ==
    /\ level[b] > 0
    /\ level' = [level EXCEPT ![b] = @ - 1]
    /\ UNCHANGED << request_limiters, request_semaphore, fpc, fkind, fdomain, got, not_fabric >>

\* ScraperClient.get_soup / get_json / get_text / get_head / post_data called by
\* an extractor (ImgurCrawler.check_imgur_credits calls get_json): create_session
\* opens a session and the request is sent. The methods do not read `domain`.
ScraperCall(c, method, domain) ==
    /\ fpc[c] = "idle"
    /\ \A b \in Callers : b < c => fpc[b] # "idle"
    /\ method \in ScraperMethods
    /\ domain \in FabricDomains
    /\ fkind' = [fkind EXCEPT ![c] = method]
    /\ fpc' = [fpc EXCEPT ![c] = "request"]
    /\ UNCHANGED << request_limiters, request_semaphore, level, fdomain, got, not_fabric >>

\* The response has arrived and the method returns or raises.
ScraperReturn(c) ==
    /\ fpc[c] = "request"
    /\ fpc' = [fpc EXCEPT ![c] = "done"]
    /\ UNCHANGED << request_limiters, request_semaphore, level, fkind, fdomain, got, not_fabric >>

FabricStart ==
    /\ Init
    /\ ignore_history = FALSE
    /\ max_simultaneous_downloads = 1
    /\ max_slots_per_domain = 1
    /\ \A d \in Domains : max_concurrent_downloads[d] = 0

FabricNext ==
    \/ \E d \in FabricDomains : RegisterLimiter(d)
    \/ \E c \in Callers, k \in {"limiter", "download_limiter"}, d \in FabricDomains :
          LimiterCall(c, k, d)
    \/ \E c \in Callers : SleepDone(c)
    \/ \E c \in Callers : AcquireRequestSemaphore(c)
    \/ \E c \in Callers : AcquireGlobalRate(c)
    \/ \E c \in Callers : AcquireDomainRate(c)
    \/ \E c \in Callers : ExitScope(c)
    \/ \E c \in Callers : Cancel(c)
    \/ \E b \in Buckets : Leak(b)
    \/ \E c \in Callers, m \in ScraperMethods, d \in FabricDomains : ScraperCall(c, m, d)
    \/ \E c \in Callers : ScraperReturn(c)

SpecFabric == FabricStart /\ [][FabricNext]_vars

\* ======================================================= claims, under Spec

\* run() call t is inside `async with file_locks.get_lock(...)`
InLockSection(t) ==
    pc[t] \in {"dl_wait_running", "get_duration", "space_paused", "requesting", "hls_gather"}

\* run() call t holds a permit of its Downloader's semaphore
HoldsSemaphore(t) ==
    pc[t] \in {"wait_running2", "wait_session_limit", "wait_lock"} \/ InLockSection(t)

RECURSIVE SumOver(_, _)
SumOver(f, S) ==
    IF S = {} THEN 0
    ELSE LET x == CHOOSE y \in S : TRUE IN f[x] + SumOver(f, S \ {x})

\* executions of download / download_hls started by run() call t and not finished
BodiesInProgress(t) ==
    IF pc[t] = "hls_gather"
    THEN 1 + Cardinality({k \in 1..MaxLines : seg[t][k] \notin {"none", "done"}})
    ELSE IF InLockSection(t) THEN 1 ELSE 0

InProgressOf(d) ==
    SumOver([t \in Tasks |-> IF dl[t] = d THEN BodiesInProgress(t) ELSE 0], Tasks)

\* C1: no two run() calls whose media items have the same filename are inside
\* the file-lock section at the same time, whatever their Downloaders.
C1_SameFilenameExcluded ==
    \A t, u \in Tasks :
        (t # u /\ InLockSection(t) /\ InLockSection(u))
            => item[t].filename # item[u].filename

HoldersOf(d) == Cardinality({u \in Tasks : dl[u] = d /\ HoldsSemaphore(u)})

C7_PerDomainSeparate ==
    /\ \A d \in Domains : semaphore[startup_semaphore(d)] = HoldersOf(d)
    /\ \A t \in Tasks :
         (/\ pc[t] = "wait_sem"
          /\ max_concurrent_downloads[dl[t]] = 0
          /\ HoldersOf(dl[t]) < max_slots_per_domain)
            => ENABLED AcquireSemaphore(t)

\* C7 witness: two domains without a limit of their own, each with
\* max_simultaneous_downloads_per_domain downloads in progress.
C7_Witness ==
    /\ \A d \in Domains : max_concurrent_downloads[d] = 0
    /\ \A d \in Domains : HoldersOf(d) = max_slots_per_domain
    /\ \A t \in Tasks : pc[t] = "requesting"

\* C8: a finished run() has executed download / download_hls exactly once when
\* the url path was not processed before by its Downloader (or ignore_history
\* is set), and has returned False without downloading otherwise.
C8_RunDownloadsOnce ==
    \A t \in Tasks :
        pc[t] = "done" =>
            IF fresh[t] \/ ignore_history
            THEN called[t] = 1
            ELSE called[t] = 0 /\ result[t] = FALSE

\* C9: mark_incomplete is issued only in a step that found RUNNING set, and the
\* ledger holds the item's row before the per-domain semaphore is held and
\* before any download request of the item is in flight.
C9_MarkedBeforeSemaphore ==
    /\ [](\A t \in Tasks :
            (HoldsSemaphore(t) \/ pc[t] = "wait_sem")
                => history[dl[t]][item[t].url] # "absent")
    /\ [][\A t \in Tasks :
            (pc[t] # "mark_incomplete" /\ pc'[t] = "mark_incomplete") => RUNNING]_vars

\* C9 witness: a download request is in flight for an item marked incomplete,
\* while RunState is PAUSED.
C9_Witness ==
    \E t \in Tasks :
        /\ pc[t] = "requesting"
        /\ history[dl[t]][item[t].url] = "incomplete"
        /\ ~RUNNING

\* a download_file call starts in this step (of a run() call or of a segment)
RequestStarts ==
    \/ \E t \in Tasks : pc[t] # "requesting" /\ pc'[t] = "requesting"
    \/ \E t \in Tasks, k \in 1..MaxLines :
          seg[t][k] # "requesting" /\ seg'[t][k] = "requesting"

InBody == {c \in Callers : fpc[c] = "body"}

\* C3: the callers inside the body of ClientManager.limiter, over all domains
\* and download_limiter callers included, never outnumber the permits of the
\* global request semaphore.
C3_BodyWithinRequestCap ==
    /\ Cardinality(InBody) <= MaxRequests
    /\ request_semaphore <= MaxRequests

\* C3 witness: the semaphore is exhausted by callers of the scope, one of them
\* in the body, while another caller waits for a permit.
C3_Witness ==
    /\ request_semaphore = MaxRequests
    /\ Cardinality(InBody) = MaxRequests
    /\ \E c \in Callers : fpc[c] = "wait_semaphore"

\* C4: the permits taken of the global request semaphore are exactly those of
\* the callers now between its acquisition and their exit, whichever way the
\* others left (return, exception, failure to enter a later gate, cancellation);
\* with no scope active the semaphore is back at full capacity.
C4_GatesReleasedOnExit ==
    /\ request_semaphore = Cardinality({c \in Callers : HoldsRequestSemaphore(c)})
    /\ (\A c \in Callers : fpc[c] \in {"idle", "done", "failed", "cancelled"})
          => request_semaphore = 0

\* C4 witness: one scope was left by the failure to enter the domain's gate,
\* another by cancellation, and the semaphore is at full capacity.
C4_Witness ==
    /\ \E c \in Callers : fpc[c] = "failed"
    /\ \E c \in Callers : fpc[c] = "cancelled"
    /\ request_semaphore = 0

\* C5: a request of get_soup, get_json, get_text, get_head or post_data is in
\* flight only while its caller is inside the limiter scope (holds the request
\* triple).
C5_RequestsHoldTriple ==
    \A c \in Callers :
        (fpc[c] = "request" /\ fkind[c] \in ScraperMethods)
            => (HoldsRequestSemaphore(c) /\ got[c][1] = "limiter")

\* C6: get_request_limiter returned the bucket registered for the domain in
\* request_limiters, or the bucket "other" for a domain without one; in both
\* cases a rate limiter.
registered_limiter(domain) ==
    IF domain \in request_limiters
    THEN << "limiter", domain >>
    ELSE << "limiter", "other" >>

C6_RegisteredLimiterReturned ==
    \A c \in Callers :
        got[c] # NoLimiter => got[c] = registered_limiter(fdomain[c])

\* ============================================ the retry loop of a download
\* One call of the decorated download / download_hls from run(): the retry
\* wrapper around exception_wrapper around the body. From an exception leaving
\* the body to the next await of the repeated body, nothing is awaited.

\* retry, lines 55-57
max_attempts == IF disable_download_attempt_limit THEN 1 ELSE download_attempts

\* Mutant of raises_at_once: e.retry is not looked at.
raises_at_once_never(e) == FALSE

\* retry, lines 52-53
raises_at_once(e) == ~e.retry

\* Mutant of counts_attempt: status 999 counts as an attempt too.
counts_attempt_always(e) == TRUE

\* retry, lines 59-60
counts_attempt(e) == e.status # "999"

\* Mutant of is_known_bad: the table is not consulted.
is_known_bad_never(url) == FALSE

\* download, lines 241-242
is_known_bad(url) == url \in DOMAIN KNOWN_BAD_URLS

\* Mutant of exception_wrapper: a transient error with a partial file resets
\* current_attempt whatever size is stored.
exception_wrapper_resetting(e, size, stored) ==
    IF e.kind \in Reraised
    THEN [error |-> e, reset |-> FALSE, stored |-> stored]
    ELSE IF size # NoEntry
    THEN [error |-> DownloadError("999", TRUE), reset |-> TRUE, stored |-> size]
    ELSE [error |-> DownloadError(e.status, TRUE), reset |-> FALSE, stored |-> stored]

\* exception_wrapper, lines 90-113, for exception e, the partial file's size
\* (NoEntry: no file) and the size stored under the filename: the exception
\* let out, whether current_attempt is reset, and the size stored afterwards.
exception_wrapper(e, size, stored) ==
    IF e.kind \in Reraised
    THEN [error |-> e, reset |-> FALSE, stored |-> stored]
    ELSE IF size # NoEntry
    THEN IF stored # NoEntry /\ stored >= size
         THEN [error |-> DownloadError(e.status, TRUE), reset |-> FALSE, stored |-> stored]
         ELSE [error |-> DownloadError("999", TRUE), reset |-> TRUE, stored |-> size]
    ELSE [error |-> DownloadError(e.status, TRUE), reset |-> FALSE, stored |-> stored]

\* retry, lines 51-71, for the exception e that exception_wrapper let out and
\* the value of current_attempt: its new value and whether the body is repeated.
retry(e, attempt) ==
    IF e.kind # "DownloadError" \/ raises_at_once(e)
    THEN [attempt |-> attempt, again |-> FALSE]
    ELSE LET a == IF counts_attempt(e) THEN attempt + 1 ELSE attempt
         IN [attempt |-> a, again |-> a < max_attempts]

\* The n-th body ends with exception e, the partial file having the given
\* size: exception_wrapper, then retry, then (on `continue`) the body again up
\* to its first await. A repeated body is download's: download_hls raises
\* nothing that is retried.
Fails(e, size, n) ==
    LET w == exception_wrapper(e, size, current_attempt_filesize[job.filename])
        r == retry(w.error, IF w.reset THEN 0 ELSE current_attempt)
    IN /\ errors' = errors + 1
       /\ caught' = e.kind
       /\ last_error' = w.error
       /\ current_attempt_filesize' =
              [current_attempt_filesize EXCEPT ![job.filename] = w.stored]
       /\ current_attempt' = r.attempt
       /\ only_retryable' = /\ errors = 0 \/ only_retryable
                            /\ w.error.kind = "DownloadError"
                            /\ w.error.retry
                            /\ w.error.status # "999"
       /\ partial_file' = size
       /\ prev_size' = size
       /\ IF r.again
          THEN /\ bodies' = n + 1
               /\ rpc' = "wait_running"
               /\ raised' = raised
          ELSE /\ bodies' = n
               /\ rpc' = "raised"
               /\ raised' = raised + 1

\* run, lines 193-198: download_hls (non-empty m3u8_content) or download is
\* called and runs to its first await: download, lines 241-245, and
\* download_hls, lines 257-313.
Download(ffmpeg_available) ==
    /\ rpc = "idle"
    /\ job # NoItem
    /\ IF job_m3u8 = << >> /\ is_known_bad(job.url)
       THEN Fails(DownloadErrorDefault(KNOWN_BAD_URLS[job.url]), partial_file, 1)
       ELSE IF job_m3u8 # << >> /\ ~ffmpeg_available
       THEN Fails(DownloadErrorDefault("FFmpeg Error"), partial_file, 1)
       ELSE /\ bodies' = 1
            /\ rpc' = IF job_m3u8 = << >> THEN "wait_running" ELSE "hls_gather"
            /\ UNCHANGED << errors, caught, last_error, current_attempt_filesize,
                            current_attempt, only_retryable, partial_file,
                            prev_size, raised >>
    /\ UNCHANGED << retry_inputs, waited, space_checked, requests, complete_file,
                    completed >>
    /\ UNCHANGED not_retrying

\* download, lines 245-247: RUNNING.wait() returned.
WaitRunningDone ==
    /\ rpc = "wait_running"
    /\ RUNNING
    /\ current_attempt' = IF current_attempt = 0 THEN 1 ELSE current_attempt
    /\ waited' = TRUE
    /\ rpc' = "checking"
    /\ UNCHANGED << retry_inputs, bodies, errors, raised, caught, last_error,
                    only_retryable, current_attempt_filesize, partial_file,
                    prev_size, space_checked, requests, complete_file, completed >>
    /\ UNCHANGED not_retrying

\* download, lines 247-249: get_duration and check_file_can_download returned.
\* A restricted file type is skipped by exception_wrapper, lines 85-88 (None is
\* returned); else client.download_file is called.
CheckDone(restricted) ==
    /\ rpc = "checking"
    /\ space_checked' = TRUE
    /\ IF restricted
       THEN /\ rpc' = "returned"
            /\ UNCHANGED requests
       ELSE /\ rpc' = "requesting"
            /\ requests' = requests + 1
    /\ UNCHANGED << retry_inputs, current_attempt, bodies, errors, raised, caught,
                    last_error, only_retryable, current_attempt_filesize,
                    partial_file, prev_size, waited, complete_file, completed >>
    /\ UNCHANGED not_retrying

\* What an attempt that wrote `written` bytes leaves of a partial file of the
\* given size (NoEntry for `written`: the file was not opened). The bytes are
\* appended (utils/downloaders.py, lines 160-162).
appended(size, written) ==
    IF written = NoEntry THEN size
    ELSE (IF size = NoEntry THEN 0 ELSE size) + written

\* download, line 249: client.download_file ended with exception e after
\* writing `written` bytes.
RequestFails(e, written) ==
    /\ rpc = "requesting"
    /\ appended(partial_file, written) <= MaxBytes
    /\ Fails(e, appended(partial_file, written), bodies)
    /\ UNCHANGED << retry_inputs, waited, space_checked, requests, complete_file,
                    completed >>
    /\ UNCHANGED not_retrying

\* download, lines 249-251: client.download_file returned False, the complete
\* file being there already; finalize_download; False is returned.
RequestSkipped ==
    /\ rpc = "requesting"
    /\ complete_file
    /\ rpc' = "returned"
    /\ UNCHANGED << retry_inputs, current_attempt, bodies, errors, raised, caught,
                    last_error, only_retryable, current_attempt_filesize,
                    partial_file, prev_size, waited, space_checked, requests,
                    complete_file, completed >>
    /\ UNCHANGED not_retrying

\* client.download_file, the body was received in full: the partial file is
\* renamed to the complete file; the history row is written next.
Renamed ==
    /\ rpc = "requesting"
    /\ ~complete_file
    /\ partial_file' = NoEntry
    /\ complete_file' = TRUE
    /\ rpc' = "recording"
    /\ UNCHANGED << retry_inputs, current_attempt, bodies, errors, raised, caught,
                    last_error, only_retryable, current_attempt_filesize,
                    prev_size, waited, space_checked, requests, completed >>
    /\ UNCHANGED not_retrying

\* The write of the history row ended (ok: it succeeded): the row is marked
\* complete and the download returns True, or the database error leaves the
\* wrappers, which catch no such exception.
Recorded(ok) ==
    /\ rpc = "recording"
    /\ IF ok
       THEN /\ completed' = TRUE
            /\ rpc' = "returned"
            /\ UNCHANGED << errors, caught, last_error, current_attempt_filesize,
                            current_attempt, only_retryable, partial_file,
                            prev_size, raised, bodies >>
       ELSE /\ Fails(Exception("DatabaseError"), partial_file, bodies)
            /\ UNCHANGED completed
    /\ UNCHANGED << retry_inputs, waited, space_checked, requests, complete_file >>
    /\ UNCHANGED not_retrying

\* download_hls, lines 313-328: gather returned. A count that differs from
\* n_segments raises "HLS Seg Error"; else ffmpeg concatenates the segments
\* into the complete file (concat_ok: its success) and process_completed is
\* awaited.
HlsDone(concat_ok) ==
    /\ rpc = "hls_gather"
    /\ IF n_successful(0) # n_segments(job_m3u8)
       THEN /\ Fails(DownloadErrorDefault("HLS Seg Error"), partial_file, bodies)
            /\ UNCHANGED complete_file
       ELSE IF ~concat_ok
       THEN /\ Fails(DownloadErrorDefault("FFmpeg Concat Error"), partial_file, bodies)
            /\ UNCHANGED complete_file
       ELSE /\ complete_file' = TRUE
            /\ rpc' = "recording"
            /\ UNCHANGED << errors, caught, last_error, current_attempt_filesize,
                            current_attempt, only_retryable, partial_file,
                            prev_size, raised, bodies >>
    /\ UNCHANGED << retry_inputs, waited, space_checked, requests, completed >>
    /\ UNCHANGED not_retrying

\* A Downloader after limiter has set current_attempt = 0, for every media
\* item, playlist and retry configuration, with or without a partial file or
\* a complete file left by an earlier session.
RetryStart ==
    /\ EngineInit
    /\ ignore_history = FALSE
    /\ max_simultaneous_downloads = 1
    /\ max_slots_per_domain = 1
    /\ \A d \in Domains : max_concurrent_downloads[d] = 0
    /\ FabricInit
    /\ ServingInit
    /\ MountInit
    /\ CachingInit
    /\ CoomerInit
    /\ AlbumInit
    /\ DedupeInit
    /\ HlsInit
    /\ ClientInit
    /\ StoringInit
    /\ FileInit
    /\ SolverInit
    /\ job \in JobItems
    /\ job_m3u8 \in Playlists
    /\ download_attempts \in 1..MaxAttempts
    /\ disable_download_attempt_limit \in BOOLEAN
    /\ partial_file \in {NoEntry} \cup 0..MaxBytes
    /\ prev_size = partial_file
    /\ complete_file \in BOOLEAN
    /\ completed = complete_file
    /\ current_attempt = 0
    /\ rpc = "idle"
    /\ bodies = 0
    /\ errors = 0
    /\ raised = 0
    /\ caught = "none"
    /\ last_error = NoError
    /\ only_retryable = FALSE
    /\ current_attempt_filesize = [f \in Filenames |-> NoEntry]
    /\ waited = FALSE
    /\ space_checked = FALSE
    /\ requests = 0

RetryNext ==
    \/ \E f \in BOOLEAN : Download(f)
    \/ WaitRunningDone
    \/ \E r \in BOOLEAN : CheckDone(r)
    \/ \E e \in BodyErrors, w \in {NoEntry} \cup 0..MaxBytes : RequestFails(e, w)
    \/ RequestSkipped
    \/ Renamed
    \/ \E ok \in BOOLEAN : Recorded(ok)
    \/ \E ok \in BOOLEAN : HlsDone(ok)

SpecRetry == RetryStart /\ [][RetryNext]_vars

\* ================================================== claims, under SpecRetry

\* the exception let out ends the download at once: it is not a DownloadError
\* or it has retry = False
IsTerminal(e) == e.kind # "DownloadError" \/ ~e.retry

C12_Status999NotCounted ==
    [][ (errors' = errors + 1 /\ last_error'.status = "999")
            => /\ current_attempt' = 0
               /\ current_attempt' <= current_attempt
               /\ raised' = raised
               /\ bodies' = bodies + 1
               /\ rpc' = "wait_running" ]_vars

\* C12 case: with the ceiling 1 of disable_download_attempt_limit, a status-999
\* error was followed by another execution of the body.
C12_Witness ==
    /\ disable_download_attempt_limit
    /\ last_error.status = "999"
    /\ bodies >= 2
    /\ rpc = "requesting"

C14_OnlyRetryableRepeats ==
    /\ [](rpc = "raised" /\ errors = 1 /\ IsTerminal(last_error) => bodies = 1)
    /\ [][ /\ (errors' = errors + 1 /\ IsTerminal(last_error'))
                => /\ rpc' = "raised"
                   /\ raised' = raised + 1
                   /\ current_attempt' = current_attempt
                   /\ bodies' = IF rpc = "idle" THEN 1 ELSE bodies
           /\ (bodies > 0 /\ bodies' > bodies)
                => /\ errors' = errors + 1
                   /\ last_error'.kind = "DownloadError"
                   /\ last_error'.retry ]_vars

\* C14 case: a DownloadError with retry = False ended a download at its only
\* request, and so did an exception of another type.
C14_Witness ==
    /\ rpc = "raised"
    /\ requests = 1
    /\ bodies = 1
    /\ last_error = DownloadError("404", FALSE)
    /\ caught = "DownloadError"

open_wb(bytes) == << >>

\* download_file, line 160: aiofiles.open(temp_file, mode='ab')
open_ab(bytes) == bytes

\* the body of the response to a GET, with or without a Range header the
\* server honours (206) or ignores (200)
response_body(range_sent, honoured, from) ==
    IF range_sent /\ honoured THEN SubSeq(Content, from + 1, FileLen) ELSE Content

\* download_file, lines 137-153: the attempt starts; session.get is awaited.
StartAttempt ==
    /\ resume_point' = IF temp_exists THEN Len(temp_file) ELSE 0
    /\ dpc' = "get"

\* download_and_store, lines 198-204: nothing to do for a complete file; else
\* download_file is called.
DownloadAndStore ==
    /\ dpc = "idle"
    /\ IF final_exists
       THEN /\ dpc' = "done"
            /\ UNCHANGED << times_tried, resume_point >>
       ELSE /\ times_tried' = 1
            /\ StartAttempt
    /\ UNCHANGED << settings_download_attempts, temp_exists, temp_file,
                    final_exists, final_file, chunks, sessions >>
    /\ UNCHANGED not_filing

\* retry, lines 75-81, on a FailureException: raise (download_and_store logs
\* it) or sleep before the next attempt.
OnFailureException ==
    IF times_tried >= settings_download_attempts
    THEN /\ dpc' = "failed"
         /\ UNCHANGED times_tried
    ELSE /\ dpc' = "sleeping"
         /\ times_tried' = times_tried + 1

\* download_file, lines 153-160: session.get returned a response (honoured:
\* the server honours a Range header; a range that starts at the end of the
\* resource is answered 416, which raise_for_status raises and retry does not
\* catch), or failed with a connection error.
Response(honoured, failure) ==
    /\ dpc = "get"
    /\ IF failure
       THEN /\ OnFailureException
            /\ UNCHANGED << temp_exists, temp_file, chunks >>
       ELSE IF temp_exists /\ honoured /\ resume_point >= FileLen
       THEN /\ dpc' = "failed"
            /\ UNCHANGED << times_tried, temp_exists, temp_file, chunks >>
       ELSE /\ chunks' = response_body(temp_exists, honoured, resume_point)
            /\ temp_exists' = TRUE
            /\ temp_file' = open_ab(temp_file)
            /\ dpc' = "writing"
            /\ UNCHANGED times_tried
    /\ UNCHANGED << settings_download_attempts, final_exists, final_file,
                    resume_point, sessions >>
    /\ UNCHANGED not_filing

\* download_file, lines 161-163: one chunk is written.
WriteChunk ==
    /\ dpc = "writing"
    /\ chunks # << >>
    /\ temp_file' = Append(temp_file, Head(chunks))
    /\ chunks' = Tail(chunks)
    /\ UNCHANGED << settings_download_attempts, temp_exists, final_exists,
                    final_file, dpc, times_tried, resume_point, sessions >>
    /\ UNCHANGED not_filing

\* download_file, lines 161-167: the stream breaks (ClientPayloadError,
\* ServerDisconnectedError, TimeoutError).
StreamFails ==
    /\ dpc = "writing"
    /\ chunks # << >>
    /\ OnFailureException
    /\ chunks' = << >>
    /\ UNCHANGED << settings_download_attempts, temp_exists, temp_file,
                    final_exists, final_file, resume_point, sessions >>
    /\ UNCHANGED not_filing

\* retry, line 81: the sleep is over; the next attempt starts.
RetrySleepDone ==
    /\ dpc = "sleeping"
    /\ StartAttempt
    /\ UNCHANGED << settings_download_attempts, temp_exists, temp_file,
                    final_exists, final_file, times_tried, chunks, sessions >>
    /\ UNCHANGED not_filing

\* download_file, line 164, and rename_file, lines 169-178: the body was
\* written in full.
RenameFile ==
    /\ dpc = "writing"
    /\ chunks = << >>
    /\ IF final_exists
       THEN UNCHANGED << final_exists, final_file >>
       ELSE /\ final_exists' = TRUE
            /\ final_file' = temp_file
    /\ temp_exists' = FALSE
    /\ temp_file' = << >>
    /\ dpc' = "done"
    /\ UNCHANGED << settings_download_attempts, times_tried, resume_point,
                    chunks, sessions >>
    /\ UNCHANGED not_filing

\* The program is interrupted, or has ended, and is started again: the files
\* are as they were left.
Restart ==
    /\ dpc # "idle"
    /\ sessions < MaxSessions
    /\ sessions' = sessions + 1
    /\ dpc' = "idle"
    /\ times_tried' = 0
    /\ resume_point' = 0
    /\ chunks' = << >>
    /\ UNCHANGED << settings_download_attempts, temp_exists, temp_file,
                    final_exists, final_file >>
    /\ UNCHANGED not_filing

FileStart ==
    /\ EngineInit
    /\ ignore_history = FALSE
    /\ max_simultaneous_downloads = 1
    /\ max_slots_per_domain = 1
    /\ \A d \in Domains : max_concurrent_downloads[d] = 0
    /\ FabricInit
    /\ ServingInit
    /\ MountInit
    /\ CachingInit
    /\ CoomerInit
    /\ AlbumInit
    /\ DedupeInit
    /\ HlsInit
    /\ ClientInit
    /\ StoringInit
    /\ RetryInit
    /\ SolverInit
    /\ settings_download_attempts \in 1..MaxTries
    /\ temp_exists = FALSE
    /\ temp_file = << >>
    /\ final_exists = FALSE
    /\ final_file = << >>
    /\ dpc = "idle"
    /\ times_tried = 0
    /\ resume_point = 0
    /\ chunks = << >>
    /\ sessions = 0

FileNext ==
    \/ DownloadAndStore
    \/ \E h \in BOOLEAN, f \in BOOLEAN : Response(h, f)
    \/ WriteChunk
    \/ StreamFails
    \/ RetrySleepDone
    \/ RenameFile
    \/ Restart

SpecFile == FileStart /\ [][FileNext]_vars

\* =================================================== claims, under SpecFile

\* a is a prefix of b
IsPrefix(a, b) == Len(a) <= Len(b) /\ SubSeq(b, 1, Len(a)) = a

\* C16: over all attempts, retries and restarts, the partial file never
\* shrinks: while it exists it is only appended to, and it goes away only by
\* being renamed at the end of a download.
C16_PartialOnlyAppended ==
    [][ /\ (temp_exists /\ temp_exists') => IsPrefix(temp_file, temp_file')
        /\ (temp_exists /\ ~temp_exists') => (dpc = "writing" /\ dpc' = "done") ]_vars

\* C16 case: an attempt found a partial file and has appended to it.
C16_Witness ==
    /\ dpc = "writing"
    /\ resume_point > 0
    /\ Len(temp_file) > resume_point

\* C17: the complete file left by a download that was interrupted and taken
\* up again has the bytes of the resource, whether or not the server honours
\* the Range header.
C17_ResumedFileIdentical == final_exists => final_file = Content

\* ==================================== get_soup / get_text and the solver
\* clients/scraper_client.py with managers/flaresolverr.py. A call is one pass
\* of get_soup or get_text, and the pass it starts by calling itself.

SolverMethods == {"get_soup", "get_text"}

\* the parameters of each method after self, in order
Parameters(method) ==
    IF method = "get_soup"
    THEN << "domain", "url", "client_session", "origin", "with_response_url",
            "cache_disabled", "retry" >>
    ELSE << "domain", "url", "client_session", "origin", "cache_disabled", "retry" >>

\* scraper_client.py, lines 87-89 and 167: the method's call of itself, as
\* create_session's wrapper passes it on with kwargs["client_session"] added:
\* the number of positional arguments and the keyword names.
RetryCall(method) ==
    [ positional |-> IF method = "get_soup" THEN 5 ELSE 4,
      keywords |-> {"retry", "cache_disabled", "client_session"} ]

\* Python's binding of a call: a keyword that names a parameter already bound
\* by position raises TypeError ("got multiple values for argument").
multiple_values(method, call) ==
    \E i \in 1..call.positional : Parameters(method)[i] \in call.keywords

\* what the url answers: a page, a challenge page, or a status that
\* check_http_status raises DownloadError for
TargetResponses == {"ok", "challenge", "error"}

\* what the solver answers to request.get: status not ok, no solution, a
\* challenge page (with the user agent of the session or another), a solved page
SolverResponses == {"failed", "no_solution", "challenge", "challenge_ua_mismatch", "solved"}

Ended == {"returned", "raised"}

\* the call of caller c ends: it returns or raises r
Ends(c, kind, r) ==
    /\ spc' = [spc EXCEPT ![c] = kind]
    /\ ended_with' = [ended_with EXCEPT ![c] = r]

\* get_soup / get_text is called by a crawler (retry and cache_disabled at
\* their defaults); lines 68-72: the GET is sent.
SolverCall(c, method) ==
    /\ spc[c] = "idle"
    /\ smethod' = [smethod EXCEPT ![c] = method]
    /\ spc' = [spc EXCEPT ![c] = "request"]
    /\ target_requests' = [target_requests EXCEPT ![c] = @ + 1]
    /\ UNCHANGED << enabled, session_id, retry_param, cache_disabled, solver_calls,
                    challenged, ended_with >>
    /\ UNCHANGED not_solving

\* lines 74-77 and 94-101: the response is there and check_http_status has
\* looked at it. A challenge page raises DDOSGuardError, which is caught:
\* delete_url is awaited.
TargetResponse(c, r) ==
    /\ spc[c] = "request"
    /\ IF r = "ok" THEN /\ Ends(c, "returned", "response")
                        /\ UNCHANGED challenged
       ELSE IF r = "error" THEN /\ Ends(c, "raised", "DownloadError")
                                /\ UNCHANGED challenged
       ELSE /\ spc' = [spc EXCEPT ![c] = "delete_url"]
            /\ challenged' = [challenged EXCEPT ![c] = @ + 1]
            /\ UNCHANGED ended_with
    /\ UNCHANGED << enabled, session_id, smethod, retry_param, cache_disabled,
                    target_requests, solver_calls >>
    /\ UNCHANGED not_solving

\* lines 77-78 and Flaresolverr._request, lines 42-62: the url is out of the
\* cache; flaresolverr.get -> _request raises when no solver is configured,
\* creates the solver session when there is none, else posts request.get.
DeleteUrlDone(c) ==
    /\ spc[c] = "delete_url"
    /\ IF ~enabled
       THEN /\ Ends(c, "raised", "DDOSGuardError")
            /\ UNCHANGED solver_calls
       ELSE IF ~session_id
       THEN /\ spc' = [spc EXCEPT ![c] = "create_session"]
            /\ UNCHANGED << ended_with, solver_calls >>
       ELSE /\ spc' = [spc EXCEPT ![c] = "solver"]
            /\ solver_calls' = [solver_calls EXCEPT ![c] = @ + 1]
            /\ UNCHANGED ended_with
    /\ UNCHANGED << enabled, session_id, smethod, retry_param, cache_disabled,
                    target_requests, challenged >>
    /\ UNCHANGED not_solving

\* Flaresolverr._create_session, lines 67-75, and _request, lines 48-62:
\* sessions.create was answered (ok: with status ok); request.get is posted.
SessionCreated(c, ok) ==
    /\ spc[c] = "create_session"
    /\ IF ok
       THEN /\ session_id' = TRUE
            /\ spc' = [spc EXCEPT ![c] = "solver"]
            /\ solver_calls' = [solver_calls EXCEPT ![c] = @ + 1]
            /\ UNCHANGED ended_with
       ELSE /\ Ends(c, "raised", "DDOSGuardError")
            /\ UNCHANGED << session_id, solver_calls >>
    /\ UNCHANGED << enabled, smethod, retry_param, cache_disabled, target_requests,
                    challenged >>
    /\ UNCHANGED not_solving

\* Flaresolverr.get, lines 89-122, and scraper_client.py, lines 84-92 and
\* 164-168: the solver answered. A page of the solver that is still a
\* challenge makes a pass with retry=True call the method again, with
\* retry=False and cache_disabled=True (the call raises TypeError if its
\* arguments do not bind; else its GET is sent); any other page is returned.
SolverResponse(c, r) ==
    /\ spc[c] = "solver"
    /\ IF r \in {"failed", "no_solution", "challenge_ua_mismatch"}
       THEN /\ Ends(c, "raised", "DDOSGuardError")
            /\ UNCHANGED << retry_param, cache_disabled, target_requests >>
       ELSE IF r = "solved"
       THEN /\ Ends(c, "returned", "solver_soup")
            /\ UNCHANGED << retry_param, cache_disabled, target_requests >>
       ELSE IF ~retry_param[c]
       THEN /\ Ends(c, "raised", "DDOSGuardError")
            /\ UNCHANGED << retry_param, cache_disabled, target_requests >>
       ELSE IF multiple_values(smethod[c], RetryCall(smethod[c]))
       THEN /\ Ends(c, "raised", "TypeError")
            /\ UNCHANGED << retry_param, cache_disabled, target_requests >>
       ELSE /\ retry_param' = [retry_param EXCEPT ![c] = FALSE]
            /\ cache_disabled' = [cache_disabled EXCEPT ![c] = TRUE]
            /\ target_requests' = [target_requests EXCEPT ![c] = @ + 1]
            /\ spc' = [spc EXCEPT ![c] = "request"]
            /\ UNCHANGED ended_with
    /\ UNCHANGED << enabled, session_id, smethod, solver_calls, challenged >>
    /\ UNCHANGED not_solving

\* what is left for caller c to do once its call is made
CallProceeds(c) ==
    \/ \E r \in TargetResponses : TargetResponse(c, r)
    \/ DeleteUrlDone(c)
    \/ \E ok \in BOOLEAN : SessionCreated(c, ok)
    \/ \E r \in SolverResponses : SolverResponse(c, r)

SolverStart ==
    /\ EngineInit
    /\ ignore_history = FALSE
    /\ max_simultaneous_downloads = 1
    /\ max_slots_per_domain = 1
    /\ \A d \in Domains : max_concurrent_downloads[d] = 0
    /\ FabricInit
    /\ ServingInit
    /\ MountInit
    /\ CachingInit
    /\ CoomerInit
    /\ AlbumInit
    /\ DedupeInit
    /\ HlsInit
    /\ ClientInit
    /\ StoringInit
    /\ RetryInit
    /\ FileInit
    /\ enabled \in BOOLEAN
    /\ session_id = FALSE
    /\ spc = [c \in Callers |-> "idle"]
    /\ smethod = [c \in Callers |-> "none"]
    /\ retry_param = [c \in Callers |-> TRUE]
    /\ cache_disabled = [c \in Callers |-> FALSE]
    /\ target_requests = [c \in Callers |-> 0]
    /\ solver_calls = [c \in Callers |-> 0]
    /\ challenged = [c \in Callers |-> 0]
    /\ ended_with = [c \in Callers |-> "none"]

SolverNext ==
    \/ \E c \in Callers, m \in SolverMethods : SolverCall(c, m)
    \/ \E c \in Callers, r \in TargetResponses : TargetResponse(c, r)
    \/ \E c \in Callers : DeleteUrlDone(c)
    \/ \E c \in Callers, ok \in BOOLEAN : SessionCreated(c, ok)
    \/ \E c \in Callers, r \in SolverResponses : SolverResponse(c, r)

\* Every awaited request is answered or times out (ClientTimeout), and the
\* event loop runs every task that is ready.
SpecSolver ==
    /\ SolverStart
    /\ [][SolverNext]_vars
    /\ \A c \in Callers : WF_vars(CallProceeds(c))

\* ================================================= claims, under SpecSolver

\* C19: a get_soup / get_text call that met a challenge page and returned has
\* called the solver exactly once and then sent the original request once
\* more, with cache_disabled = True, and returns the response to that request.
C19_SolvedThenReissued ==
    \A c \in Callers :
        (spc[c] = "returned" /\ challenged[c] > 0)
            => /\ solver_calls[c] = 1
               /\ target_requests[c] = 2
               /\ cache_disabled[c]
               /\ ended_with[c] = "response"

\* C20: a top-level get_soup / get_text call sends the original request at
\* most twice and asks the solver at most once; a call that met a challenge
\* and does not get a page ends with DDOSGuardError (or, the repeated request
\* answered with an error status, DownloadError); and every call ends.
C20_SecondChallengeFatal ==
    /\ [](\A c \in Callers :
            /\ target_requests[c] <= 2
            /\ solver_calls[c] <= 1
            /\ (spc[c] = "raised" /\ challenged[c] > 0)
                 => ended_with[c] \in {"DDOSGuardError", "DownloadError"})
    /\ \A c \in Callers : (spc[c] # "idle") ~> (spc[c] \in Ended)

\* ====================================================== the storage manager
\* managers/storage_manager.py: check_free_space, the polling loop and close().

\* Mutant of recursion_no_pause: the repeated check is made as the first was.
recursion_no_pause_kept(no_pause) == no_pause

\* check_free_space, line 49: the no_pause the call passes to itself.
recursion_no_pause(no_pause) == TRUE

\* check_free_space is called (lines 42-50, with _has_sufficient_space, lines
\* 66-80); v is what disk_usage reports if the mount is measured now.
CheckFreeSpace(c, np, v) ==
    /\ cpc[c] = "idle"
    /\ free_space' = queried(v)
    /\ seen' = [seen EXCEPT ![c] = queried(v)]
    /\ no_pause_arg' = [no_pause_arg EXCEPT ![c] = np]
    /\ LET check == check_free_space(queried(v), np) IN
       IF check = "pause"
       THEN /\ RUNNING' = FALSE
            /\ cleared' = [cleared EXCEPT ![c] = @ + 1]
            /\ pass_no_pause' = [pass_no_pause EXCEPT ![c] = recursion_no_pause(np)]
            /\ cpc' = [cpc EXCEPT ![c] = "paused"]
       ELSE /\ cpc' = [cpc EXCEPT ![c] = IF check = "ok" THEN "ok" ELSE "raised"]
            /\ pass_no_pause' = [pass_no_pause EXCEPT ![c] = np]
            /\ UNCHANGED << RUNNING, cleared >>
    /\ UNCHANGED << loop, updated, iterations, closing >>
    /\ UNCHANGED not_storing

\* check_free_space, lines 48-49: RUNNING.wait() returned and the call has
\* called itself.
CheckResumed(c, v) ==
    /\ cpc[c] = "paused"
    /\ RUNNING
    /\ free_space' = queried(v)
    /\ LET check == check_free_space(queried(v), pass_no_pause[c]) IN
       IF check = "pause"
       THEN /\ RUNNING' = FALSE
            /\ cleared' = [cleared EXCEPT ![c] = @ + 1]
            /\ pass_no_pause' = [pass_no_pause EXCEPT ![c] = recursion_no_pause(@)]
            /\ UNCHANGED cpc
       ELSE /\ cpc' = [cpc EXCEPT ![c] = IF check = "ok" THEN "ok" ELSE "raised"]
            /\ UNCHANGED << RUNNING, cleared, pass_no_pause >>
    /\ UNCHANGED << loop, seen, no_pause_arg, updated, iterations, closing >>
    /\ UNCHANGED not_storing

\* _check_free_space_loop, lines 91-97 and 102-103: RUNNING.wait() returned
\* and _updated is cleared; the mounts in use are queried in worker threads;
\* with no mount in use _updated is set at once and the loop sleeps.
PollStart ==
    /\ loop = "waiting"
    /\ RUNNING
    /\ IF free_space # NoEntry
       THEN /\ loop' = "querying"
            /\ updated' = FALSE
            /\ UNCHANGED iterations
       ELSE /\ loop' = "sleeping"
            /\ updated' = TRUE
            /\ iterations' = Min(iterations + 1, MaxIterations)
    /\ UNCHANGED << RUNNING, free_space, cpc, no_pause_arg, pass_no_pause, cleared,
                    seen, closing >>
    /\ UNCHANGED not_storing

\* _check_free_space_loop, lines 97-103: the readings are stored, _updated is
\* set and the loop sleeps.
PollQueryDone(v) ==
    /\ loop = "querying"
    /\ free_space' = v
    /\ updated' = TRUE
    /\ iterations' = Min(iterations + 1, MaxIterations)
    /\ loop' = "sleeping"
    /\ UNCHANGED << RUNNING, cpc, no_pause_arg, pass_no_pause, cleared, seen, closing >>
    /\ UNCHANGED not_storing

\* _check_free_space_loop, line 103: the sleep is over.
PollSleepDone ==
    /\ loop = "sleeping"
    /\ loop' = "waiting"
    /\ UNCHANGED << RUNNING, free_space, storing >>
    /\ UNCHANGED not_storing

\* close(), lines 58-59: reset() awaits _updated.
Close ==
    /\ closing = "idle"
    /\ closing' = "reset"
    /\ UNCHANGED << RUNNING, free_space, loop, cpc, no_pause_arg, pass_no_pause,
                    cleared, seen, updated, iterations >>
    /\ UNCHANGED not_storing

\* reset(), lines 53-56, and close(), lines 60-62: _updated.wait() returned;
\* the mounts are forgotten, the polling task is cancelled and awaited.
ResetDone ==
    /\ closing = "reset"
    /\ updated
    /\ free_space' = NoEntry
    /\ loop' = "cancelled"
    /\ closing' = "awaiting_loop"
    /\ UNCHANGED << RUNNING, cpc, no_pause_arg, pass_no_pause, cleared, seen,
                    updated, iterations >>
    /\ UNCHANGED not_storing

\* close(), lines 62-64: the task has ended with CancelledError.
CloseDone ==
    /\ closing = "awaiting_loop"
    /\ loop = "cancelled"
    /\ closing' = "closed"
    /\ UNCHANGED << RUNNING, free_space, loop, cpc, no_pause_arg, pass_no_pause,
                    cleared, seen, updated, iterations >>
    /\ UNCHANGED not_storing

StorageStart ==
    /\ Init
    /\ ignore_history = FALSE
    /\ max_simultaneous_downloads = 1
    /\ max_slots_per_domain = 1
    /\ \A d \in Domains : max_concurrent_downloads[d] = 0

StorageNext ==
    \/ \E c \in Callers, np \in BOOLEAN, v \in FreeVals : CheckFreeSpace(c, np, v)
    \/ \E c \in Callers, v \in FreeVals : CheckResumed(c, v)
    \/ Resume
    \/ PollStart
    \/ \E v \in FreeVals : PollQueryDone(v)
    \/ PollSleepDone
    \/ Close
    \/ ResetDone
    \/ CloseDone

\* The event loop runs every task that is ready, a worker thread and a sleep
\* end, and a task waiting on an Event is woken by its set() even if the Event
\* is cleared again afterwards. Nothing obliges the user to set RunState.
SpecStorage ==
    /\ StorageStart
    /\ [][StorageNext]_vars
    /\ WF_vars(PollStart)
    /\ WF_vars(\E v \in FreeVals : PollQueryDone(v))
    /\ WF_vars(PollSleepDone)
    /\ SF_vars(ResetDone)
    /\ WF_vars(CloseDone)

\* ================================================ claims, under SpecStorage

\* C23: a check_free_space call that found free bytes greater than or equal
\* to required_free_space has succeeded without clearing RUNNING and without
\* raising.
C23_EnoughSpaceSucceeds ==
    \A c \in Callers :
        (seen[c] # NoEntry /\ seen[c] >= required_free_space)
            => (cpc[c] = "ok" /\ cleared[c] = 0)

\* C24: one check_free_space call clears RUNNING at most once; the check made
\* after RunState was set again ends the call, with InsufficientFreeSpaceError
\* if the space is still insufficient, and does not clear RUNNING; a call with
\* no_pause set that finds too little space raises and leaves RunState alone.
C24_PausesAtMostOnce ==
    /\ [](\A c \in Callers : cleared[c] <= 1)
    /\ [][\A c \in Callers :
            /\ cpc[c] = "paused" => cleared'[c] = cleared[c]
            /\ (cpc[c] = "paused" /\ cpc'[c] # "paused")
                 => /\ cpc'[c] = (IF has_sufficient_space(free_space') THEN "ok" ELSE "raised")
                    /\ RUNNING' = RUNNING
            /\ (cpc[c] = "idle" /\ cpc'[c] # "idle" /\ no_pause_arg'[c]
                  /\ ~has_sufficient_space(seen'[c]))
                 => (cpc'[c] = "raised" /\ RUNNING' = RUNNING)
         ]_vars

\* C24 case: the call paused once, RunState was set again, the space was
\* still insufficient and the call raised.
C24_Witness ==
    \E c \in Callers :
        /\ cpc[c] = "raised"
        /\ cleared[c] = 1
        /\ RUNNING
        /\ ~has_sufficient_space(free_space)

Statuses == {101, 200, 304, 404}

\* the host of the url: gofile and imgur answer errors in JSON
Hosts == {"gofile", "other"}

\* response.json(): not JSON (ContentTypeError), a JSON object with
\* data.error, any other JSON object
JsonBodies == {"ContentTypeError", "data_error", "plain"}

\* response.text(): empty, a page, a challenge page (DDoS-Guard or Cloudflare)
TextBodies == {"empty", "page", "ddos_guard", "cloudflare"}

HttpResponses ==
    [ status : Statuses, download : BOOLEAN, e_tag_listed : BOOLEAN, host : Hosts,
      json : JsonBodies, text : TextBodies, content_type : BOOLEAN ]

\* ClientManager.check_ddos_guard / check_cloudflare on a page
check_ddos_guard(page) == page = "ddos_guard"
check_cloudflare(page) == page = "cloudflare"

IM_A_TEAPOT == 418
NOT_FOUND == 404

Returned == [kind |-> "return", status |-> 0]
Raised(kind, status) == [kind |-> kind, status |-> status]

\* Mutant of acceptable_status: only 2xx is accepted.
acceptable_status_2xx(status) == 200 <= status /\ status < 300

\* check_http_status, line 196: HTTPStatus.OK <= status < HTTPStatus.BAD_REQUEST
acceptable_status(status) == 200 <= status /\ status < 400

\* ClientManager.check_http_status, lines 183-221
check_http_status(r) ==
    IF r.download /\ r.e_tag_listed THEN Raised("DownloadError", NOT_FOUND)
    ELSE IF acceptable_status(r.status) THEN Returned
    ELSE IF r.host = "gofile" /\ r.json = "data_error" THEN Raised("ScrapeError", r.status)
    ELSE IF r.text # "empty" /\ (check_ddos_guard(r.text) \/ check_cloudflare(r.text))
    THEN Raised("DDOSGuardError", r.status)
    ELSE Raised("DownloadError", IF r.content_type THEN r.status ELSE IM_A_TEAPOT)

\* the two Flaresolverr classes of the repository
Versions == {"flaresolverr.py", "client_manager.py"}

CookieNames == {"cf_clearance"}

\* the solver's answer to request.get, and whether its userAgent is the one
\* of the client session
SolverAnswers ==
    [ version : Versions, status_ok : BOOLEAN, has_solution : BOOLEAN,
      page : {"page", "ddos_guard", "cloudflare"}, same_user_agent : BOOLEAN,
      cookies : SUBSET CookieNames ]

\* clients/http/check.is_ddos_guard, which flaresolverr.py calls on the page
is_ddos_guard(page) == page = "ddos_guard"

\* the challenge test each version makes on the solver's page
shows_challenge(a) ==
    IF a.version = "flaresolverr.py" THEN is_ddos_guard(a.page)
    ELSE check_ddos_guard(a.page) \/ check_cloudflare(a.page)

\* Flaresolverr.update_cookies (flaresolverr.py, line 32), the default of the
\* parameter in client_manager.py
update_cookies == TRUE

\* Mutant of mismatch_fails: a mismatch fails whatever the page shows.
mismatch_fails_always(a) == ~a.same_user_agent

\* Flaresolverr.get, flaresolverr.py lines 103-107: a challenge page from a
\* solver with another user agent
mismatch_fails(a) == shows_challenge(a) /\ ~a.same_user_agent

\* Flaresolverr.get: what it raises or returns, the cookies it installs and
\* whether it logs the mismatch warning
flaresolverr_get(a) ==
    IF ~a.has_solution \/ ~a.status_ok
    THEN [kind |-> "DDOSGuardError", cause |-> "response", installed |-> {}, warned |-> FALSE]
    ELSE IF shows_challenge(a) /\ ~update_cookies
    THEN [kind |-> "DDOSGuardError", cause |-> "response", installed |-> {}, warned |-> FALSE]
    ELSE IF mismatch_fails(a)
    THEN [kind |-> "DDOSGuardError", cause |-> "mismatch", installed |-> {}, warned |-> FALSE]
    ELSE [kind |-> "return", cause |-> "none",
          installed |-> IF update_cookies THEN a.cookies ELSE {},
          warned |-> update_cookies /\ ~a.same_user_agent]

\* check_http_status is called on a response (once in a behaviour).
CheckHttpStatus(r) ==
    /\ http_outcome = NoOutcome
    /\ http_response' = r
    /\ http_outcome' = check_http_status(r)
    /\ UNCHANGED << fs_resp, fs_outcome, cookies >>
    /\ UNCHANGED not_client

\* Flaresolverr.get has the solver's answer (once in a behaviour).
FlaresolverrGet(a) ==
    /\ fs_outcome = NoOutcome
    /\ fs_resp' = a
    /\ fs_outcome' = flaresolverr_get(a)
    /\ cookies' = cookies \cup flaresolverr_get(a).installed
    /\ UNCHANGED << http_response, http_outcome >>
    /\ UNCHANGED not_client

ClientStart ==
    /\ Init
    /\ ignore_history = FALSE
    /\ max_simultaneous_downloads = 1
    /\ max_slots_per_domain = 1
    /\ \A d \in Domains : max_concurrent_downloads[d] = 0

ClientNext ==
    \/ \E r \in HttpResponses : CheckHttpStatus(r)
    \/ \E a \in SolverAnswers : FlaresolverrGet(a)

SpecClient == ClientStart /\ [][ClientNext]_vars

\* ================================================= claims, under SpecClient

\* C21: Flaresolverr.get fails because of a user-agent mismatch only when the
\* solver's page still shows a challenge; with a mismatch and a page without
\* challenge it returns and the returned cookies are in the shared jar.
C21_MismatchFailsOnlyOnChallenge ==
    fs_outcome.kind # "none" =>
        /\ fs_outcome.cause = "mismatch"
             => (~fs_resp.same_user_agent /\ fs_resp.page # "page")
        /\ (fs_resp.status_ok /\ fs_resp.has_solution /\ ~fs_resp.same_user_agent
              /\ fs_resp.page = "page")
             => (fs_outcome.kind = "return" /\ fs_resp.cookies \subseteq cookies)

\* C21 case: a solver with another user agent returned a page without
\* challenge and a cookie; get returned and the cookie is in the jar.
C21_Witness ==
    /\ fs_outcome.kind = "return"
    /\ ~fs_resp.same_user_agent
    /\ fs_resp.page = "page"
    /\ fs_resp.cookies = CookieNames
    /\ cookies = CookieNames
    /\ fs_outcome.warned

\* C22: check_http_status returns only for a 2xx status; a status that is not
\* 2xx raises DDOSGuardError if the body is a challenge page and else
\* DownloadError with the status, 418 if there is no Content-Type header.
C22_OnlySuccessReturns ==
    http_outcome.kind # "none" =>
        /\ http_outcome.kind = "return"
             => (200 <= http_response.status /\ http_response.status < 300)
        /\ (~(200 <= http_response.status /\ http_response.status < 300)
              /\ ~(http_response.download /\ http_response.e_tag_listed))
             => IF http_response.text \in {"ddos_guard", "cloudflare"}
                THEN http_outcome.kind = "DDOSGuardError"
                ELSE http_outcome = Raised("DownloadError",
                                           IF http_response.content_type
                                           THEN http_response.status ELSE IM_A_TEAPOT)

\* ============================================================ download_hls
\* downloader/downloader.py, lines 255-328, on a playlist of a few lines.

\* the lines a playlist is made of: segment names, one with blanks around it,
\* a tag, the empty line and a line of blanks
HlsLines == {"a.ts", " b.ts ", "#EXTM3U", "", "  "}
HlsPlaylists == UNION { [1..n -> HlsLines] : n \in 0..MaxHlsLines }

\* str.strip() on the lines of the model
strip(line) ==
    IF line = " b.ts " THEN "b.ts"
    ELSE IF line = "  " THEN ""
    ELSE line

\* get_valid_segment_lines, lines 271-275: the stripped lines that pass
\* `segment_name or not segment_name.startswith("#")`
RECURSIVE get_valid_segment_lines(_)
get_valid_segment_lines(lines) ==
    IF lines = << >> THEN << >>
    ELSE IF is_valid_segment_line(strip(Head(lines)))
         THEN << strip(Head(lines)) >> \o get_valid_segment_lines(Tail(lines))
         ELSE get_valid_segment_lines(Tail(lines))

\* download_segment(), lines 302-307: the coroutine ends without a return
\* statement, whatever self.download returned.
download_segment_returns(downloaded) == "None"

\* line 311: sum(1 for r in results if r)
RECURSIVE count_truthy(_)
count_truthy(results) ==
    IF results = << >> THEN 0
    ELSE (IF Head(results) \in {"None", "False"} THEN 0 ELSE 1) + count_truthy(Tail(results))

\* how self.download(seg_media_item) ends: True, False (the file was there
\* already, or is not allowed), or an exception that retry lets out
SegmentOutcomes == {"True", "False", "raised"}

\* download_hls is called, lines 256-310: without ffmpeg it raises; else the
\* segments are created and their downloads gathered.
DownloadHls(content, ffmpeg_available) ==
    /\ hpc = "idle"
    /\ hls_content' = content
    /\ IF ~ffmpeg_available
       THEN /\ hpc' = "raised"
            /\ hls_error' = "FFmpeg Error"
            /\ UNCHANGED << hls_segments, hls_n_segments, seg_result >>
       ELSE /\ hls_segments' = get_valid_segment_lines(content)
            /\ hls_n_segments' = Len(get_valid_segment_lines(content))
            /\ seg_result' = [k \in 1..Len(get_valid_segment_lines(content)) |-> "pending"]
            /\ hpc' = "gather"
            /\ UNCHANGED hls_error
    /\ UNCHANGED << concat_calls, concat_paths >>
    /\ UNCHANGED not_hls

\* download_segment, lines 302-307: self.download has ended for segment k; an
\* exception leaves gather and download_hls at once.
SegmentDone(k, o) ==
    /\ hpc = "gather"
    /\ k \in DOMAIN seg_result
    /\ seg_result[k] = "pending"
    /\ seg_result' = [seg_result EXCEPT ![k] = o]
    /\ IF o = "raised"
       THEN /\ hpc' = "raised"
            /\ hls_error' = "DownloadError"
       ELSE UNCHANGED << hpc, hls_error >>
    /\ UNCHANGED << hls_content, hls_segments, hls_n_segments, concat_calls, concat_paths >>
    /\ UNCHANGED not_hls

\* lines 310-317: gather returned; the truthy results are counted and
\* compared with n_segments; ffmpeg.concat is called on the sorted paths.
GatherDone ==
    /\ hpc = "gather"
    /\ \A k \in DOMAIN seg_result : seg_result[k] \in {"True", "False"}
    /\ LET results == [k \in DOMAIN seg_result |-> download_segment_returns(seg_result[k])]
           n_success == count_truthy(results)
       IN IF n_success # hls_n_segments
          THEN /\ hpc' = "raised"
               /\ hls_error' = "HLS Seg Error"
               /\ UNCHANGED << concat_calls, concat_paths >>
          ELSE /\ hpc' = "concat"
               /\ concat_calls' = concat_calls + 1
               /\ concat_paths' = DOMAIN seg_result
               /\ UNCHANGED hls_error
    /\ UNCHANGED << hls_content, hls_segments, hls_n_segments, seg_result >>
    /\ UNCHANGED not_hls

\* lines 319-328: ffmpeg.concat has ended.
ConcatDone(success) ==
    /\ hpc = "concat"
    /\ IF success
       THEN /\ hpc' = "returned"
            /\ UNCHANGED hls_error
       ELSE /\ hpc' = "raised"
            /\ hls_error' = "FFmpeg Concat Error"
    /\ UNCHANGED << hls_content, hls_segments, hls_n_segments, seg_result,
                    concat_calls, concat_paths >>
    /\ UNCHANGED not_hls

HlsStart ==
    /\ Init
    /\ ignore_history = FALSE
    /\ max_simultaneous_downloads = 1
    /\ max_slots_per_domain = 1
    /\ \A d \in Domains : max_concurrent_downloads[d] = 0

HlsNext ==
    \/ \E c \in HlsPlaylists, f \in BOOLEAN : DownloadHls(c, f)
    \/ \E k \in 1..MaxHlsLines, o \in SegmentOutcomes : SegmentDone(k, o)
    \/ GatherDone
    \/ \E ok \in BOOLEAN : ConcatDone(ok)

SpecHls == HlsStart /\ [][HlsNext]_vars

\* ==================================================== claims, under SpecHls

\* the lines that are non-empty after trimming and do not begin with '#'
RECURSIVE SegmentLines(_)
SegmentLines(lines) ==
    IF lines = << >> THEN << >>
    ELSE IF strip(Head(lines)) # "" /\ ~startswith_hash(strip(Head(lines)))
         THEN << strip(Head(lines)) >> \o SegmentLines(Tail(lines))
         ELSE SegmentLines(Tail(lines))

HashTypes == {"xxh128", "md5", "sha256"}

\* what can be at a path: nothing, a directory, an empty file, a file with
\* content x or y
FileKinds == {"absent", "dir", "empty", "x", "y"}

is_file(kind) == kind \notin {"absent", "dir"}
st_size_is_zero(kind) == kind = "empty"
suffix(path) == IF path = "d.part" THEN ".part" ELSE ".jpg"

\* hash_manager.hash_file: the digest of the content under the hash type
hash_file(kind, hash_type) == hash_type \o ":" \o kind

Record(path, hash_type, hash) == [path |-> path, hash_type |-> hash_type, hash |-> hash]

\* hash_table.get_file_hash_exists: the hash stored for the path, or None
get_file_hash_exists(table, path, hash_type) ==
    IF \E i \in DOMAIN table : table[i].path = path /\ table[i].hash_type = hash_type
    THEN (CHOOSE r \in { table[i] : i \in DOMAIN table } :
              r.path = path /\ r.hash_type = hash_type).hash
    ELSE "None"

\* hash_table.insert_or_update_hash_db: one record per path and hash type; a
\* new record goes after the others
insert_or_update_hash_db(table, hash, hash_type, path) ==
    IF \E i \in DOMAIN table : table[i].path = path /\ table[i].hash_type = hash_type
    THEN [i \in DOMAIN table |->
            IF table[i].path = path /\ table[i].hash_type = hash_type
            THEN Record(path, hash_type, hash) ELSE table[i]]
    ELSE Append(table, Record(path, hash_type, hash))

\* hash_table.get_files_with_hash_matches: the paths recorded with the hash,
\* in the store's order
RECURSIVE get_files_with_hash_matches(_, _, _)
get_files_with_hash_matches(table, hash, hash_type) ==
    IF table = << >> THEN << >>
    ELSE IF Head(table).hash = hash /\ Head(table).hash_type = hash_type
         THEN << Head(table).path >> \o get_files_with_hash_matches(Tail(table), hash, hash_type)
         ELSE get_files_with_hash_matches(Tail(table), hash, hash_type)

\* _update_db_and_retrive_hash_helper, lines 91-123; failing: the hash type
\* for which hash_file raises (the exception is logged, line 122)
update_helper(table, path, kind, hash_type, failing) ==
    LET hash == get_file_hash_exists(table, path, hash_type) IN
    IF hash = "None"
    THEN IF failing = hash_type
         THEN [table |-> table, hash |-> "None", wrote |-> {}, hashed |-> 1]
         ELSE [table |-> insert_or_update_hash_db(table, hash_file(kind, hash_type), hash_type, path),
               hash |-> hash_file(kind, hash_type), wrote |-> {hash_type}, hashed |-> 1]
    ELSE [table |-> insert_or_update_hash_db(table, hash, hash_type, path),
          hash |-> hash, wrote |-> {hash_type}, hashed |-> 0]

\* Mutant of wanted: every hash type is computed.
wanted_all(hash_type) == TRUE

\* update_db_and_retrive_hash, lines 84-88: the hash types asked for
wanted(hash_type) ==
    \/ hash_type = "xxh128"
    \/ hash_type = "md5" /\ add_md5_hash
    \/ hash_type = "sha256" /\ add_sha256_hash

\* update_db_and_retrive_hash, lines 74-89: the table after the call, the
\* hash returned, the types a record was written for and the hash_file calls
update_db_and_retrive_hash(table, path, kind, failing) ==
    LET none(t) == [table |-> t, hash |-> "None", wrote |-> {}, hashed |-> 0] IN
    IF ~is_file(kind) \/ st_size_is_zero(kind) \/ suffix(path) = ".part"
    THEN none(table)
    ELSE LET h1 == update_helper(table, path, kind, "xxh128", failing)
             h2 == IF wanted("md5") THEN update_helper(h1.table, path, kind, "md5", failing)
                   ELSE none(h1.table)
             h3 == IF wanted("sha256") THEN update_helper(h2.table, path, kind, "sha256", failing)
                   ELSE none(h2.table)
         IN [table |-> h3.table, hash |-> h1.hash,
             wrote |-> h1.wrote \cup h2.wrote \cup h3.wrote,
             hashed |-> h1.hashed + h2.hashed + h3.hashed]

Failing == HashTypes \cup {"none"}

\* update_db_and_retrive_hash is called on a path (by hash_directory).
UpdateDbAndRetriveHash(path, kind, failing) ==
    /\ update_calls < MaxUpdateCalls
    /\ LET r == update_db_and_retrive_hash(hash_table, path, kind, failing) IN
       /\ hash_table' = r.table
       /\ last_written' = r.wrote
       /\ hash_file_calls' = hash_file_calls + r.hashed
    /\ last_file' = [path |-> path, kind |-> kind, failing |-> failing]
    /\ update_calls' = update_calls + 1
    /\ UNCHANGED << hashing, auto_dedupe, add_md5_hash, add_sha256_hash,
                    send_deleted_to_trash, disk, completed_downloads,
                    hashed_media_items, hashes_dict, removed_files, dpc_cleanup,
                    delete_failed >>
    /\ UNCHANGED not_deduping

\* everything but the hash client, as Init leaves it
RestInit ==
    /\ EngineInit
    /\ max_simultaneous_downloads = 1
    /\ max_slots_per_domain = 1
    /\ \A d \in Domains : max_concurrent_downloads[d] = 0
    /\ RetryInit
    /\ FileInit
    /\ SolverInit
    /\ FabricInit
    /\ ServingInit
    /\ MountInit
    /\ CachingInit
    /\ CoomerInit
    /\ AlbumInit
    /\ StoringInit
    /\ ClientInit
    /\ HlsInit

HashStart ==
    /\ RestInit
    /\ ignore_history = FALSE
    /\ hashing = "IN_PLACE"
    /\ auto_dedupe = TRUE
    /\ add_md5_hash \in BOOLEAN
    /\ add_sha256_hash \in BOOLEAN
    /\ send_deleted_to_trash = TRUE
    /\ disk = [p \in AllPaths |-> "absent"]
    /\ hash_table = << >>
    /\ completed_downloads = {}
    /\ hashed_media_items = {}
    /\ hashes_dict = {}
    /\ removed_files = 0
    /\ hash_file_calls = 0
    /\ last_file = NoFile
    /\ last_written = {}
    /\ update_calls = 0
    /\ dpc_cleanup = "idle"
    /\ delete_failed = {}

HashNext ==
    \E path \in AllPaths, kind \in FileKinds \ {"y"}, failing \in Failing :
        UpdateDbAndRetriveHash(path, kind, failing)

SpecHash == HashStart /\ [][HashNext]_vars

\* =================================================== claims, under SpecHash

hash_item(state, path, failing) ==
    LET r == update_db_and_retrive_hash(state.table, path, disk[path], failing) IN
    [ table |-> r.table,
      hashed_items |-> state.hashed_items \cup {path},
      keys |-> state.keys \cup {[hash |-> r.hash, path |-> path]},
      hashed |-> state.hashed + r.hashed ]

\* get_file_hashes_dict, lines 164-177: every completed download that was not
\* hashed yet and is a file is hashed; the paths are taken in some order
RECURSIVE get_file_hashes_dict(_, _, _)
get_file_hashes_dict(state, downloads, failing) ==
    IF downloads = {} THEN state
    ELSE LET path == CHOOSE p \in downloads : TRUE IN
         get_file_hashes_dict(
            IF is_file(disk[path]) THEN hash_item(state, path, failing) ELSE state,
            downloads \ {path}, failing)

\* Mutant of cleanup_wanted: ignore_history is not looked at.
cleanup_wanted_despite_history == hashing # "OFF" /\ auto_dedupe

\* cleanup_dupes_after_download, lines 134-139
cleanup_wanted == hashing # "OFF" /\ auto_dedupe /\ ~ignore_history

\* Mutant of spared: no match is spared.
spared_none(all_matches) == << >>

\* final_dupe_cleanup, line 154: all_matches[1:] leaves the first match out
spared(all_matches) == IF all_matches = << >> THEN << >> ELSE << Head(all_matches) >>

Range(seq) == { seq[i] : i \in DOMAIN seq }

\* final_dupe_cleanup, line 147: the hashes final_dict has an entry for
hashes(final_dict) == { entry.hash : entry \in final_dict }

\* final_dupe_cleanup, lines 154-156: the matches of one hash that are looked
\* at and are files
candidates(hash) ==
    LET all_matches == get_files_with_hash_matches(hash_table, hash, "xxh128") IN
    { p \in Range(all_matches) \ Range(spared(all_matches)) : is_file(disk[p]) }

\* a download has completed: the file is in its folder.
FileCompleted(path, kind) ==
    /\ dpc_cleanup = "idle"
    /\ path \notin completed_downloads
    /\ disk[path] = "absent"
    /\ disk' = [disk EXCEPT ![path] = kind]
    /\ completed_downloads' = completed_downloads \cup {path}
    /\ UNCHANGED << hashing, auto_dedupe, add_md5_hash, add_sha256_hash,
                    send_deleted_to_trash, hash_table, hashed_media_items, hashes_dict,
                    removed_files, hash_file_calls, last_file, last_written,
                    update_calls, dpc_cleanup, delete_failed >>
    /\ UNCHANGED not_deduping

\* hash_item_during_download, lines 63-72, for a completed download
HashItemDuringDownload(path, failing) ==
    /\ dpc_cleanup = "idle"
    /\ hashing = "IN_PLACE"
    /\ path \in completed_downloads \ hashed_media_items
    /\ is_file(disk[path])
    /\ LET r == hash_item([table |-> hash_table, hashed_items |-> hashed_media_items,
                           keys |-> hashes_dict, hashed |-> 0], path, failing) IN
       /\ hash_table' = r.table
       /\ hashed_media_items' = r.hashed_items
       /\ hashes_dict' = r.keys
       /\ hash_file_calls' = hash_file_calls + r.hashed
    /\ UNCHANGED << hashing, auto_dedupe, add_md5_hash, add_sha256_hash,
                    send_deleted_to_trash, disk, completed_downloads, removed_files,
                    last_file, last_written, update_calls, dpc_cleanup, delete_failed >>
    /\ UNCHANGED not_deduping

\* the user removes or moves a downloaded file.
FileRemoved(path) ==
    /\ dpc_cleanup = "idle"
    /\ is_file(disk[path])
    /\ disk' = [disk EXCEPT ![path] = "absent"]
    /\ UNCHANGED << hashing, auto_dedupe, add_md5_hash, add_sha256_hash,
                    send_deleted_to_trash, hash_table, completed_downloads,
                    hashed_media_items, hashes_dict, removed_files, hash_file_calls,
                    last_file, last_written, update_calls, dpc_cleanup, delete_failed >>
    /\ UNCHANGED not_deduping

\* cleanup_dupes_after_download, lines 133-141: the options are looked at and
\* the downloads not yet hashed are hashed.
CleanupDupesAfterDownload(failing) ==
    /\ dpc_cleanup = "idle"
    /\ IF ~cleanup_wanted
       THEN /\ dpc_cleanup' = "done"
            /\ UNCHANGED << hash_table, hashed_media_items, hashes_dict, hash_file_calls >>
       ELSE LET r == get_file_hashes_dict(
                        [table |-> hash_table, hashed_items |-> hashed_media_items,
                         keys |-> hashes_dict, hashed |-> 0],
                        completed_downloads \ hashed_media_items, failing) IN
            /\ hash_table' = r.table
            /\ hashed_media_items' = r.hashed_items
            /\ hashes_dict' = r.keys
            /\ hash_file_calls' = hash_file_calls + r.hashed
            /\ dpc_cleanup' = "final_dupe_cleanup"
    /\ UNCHANGED << hashing, auto_dedupe, add_md5_hash, add_sha256_hash,
                    send_deleted_to_trash, disk, completed_downloads, removed_files,
                    last_file, last_written, update_calls, delete_failed >>
    /\ UNCHANGED not_deduping

\* final_dupe_cleanup, lines 145-162, with delete_file, lines 179-186;
\* unremovable: the paths whose deletion raises OSError (logged, line 162).
FinalDupeCleanup(unremovable) ==
    /\ dpc_cleanup = "final_dupe_cleanup"
    /\ LET looked_at == UNION { candidates(hash) : hash \in hashes(hashes_dict) }
           deleted == looked_at \ unremovable
       IN /\ disk' = [p \in AllPaths |-> IF p \in deleted THEN "absent" ELSE disk[p]]
          /\ removed_files' = removed_files + Cardinality(deleted)
          /\ delete_failed' = looked_at \cap unremovable
    /\ dpc_cleanup' = "done"
    /\ UNCHANGED << hashing, auto_dedupe, add_md5_hash, add_sha256_hash,
                    send_deleted_to_trash, hash_table, completed_downloads,
                    hashed_media_items, hashes_dict, hash_file_calls, last_file,
                    last_written, update_calls >>
    /\ UNCHANGED not_deduping

DedupeStart ==
    /\ RestInit
    /\ hashing \in HashingModes
    /\ auto_dedupe \in BOOLEAN
    /\ add_md5_hash = FALSE
    /\ add_sha256_hash = FALSE
    /\ send_deleted_to_trash \in BOOLEAN
    /\ disk = [p \in AllPaths |-> "absent"]
    /\ hash_table = << >>
    /\ completed_downloads = {}
    /\ hashed_media_items = {}
    /\ hashes_dict = {}
    /\ removed_files = 0
    /\ hash_file_calls = 0
    /\ last_file = NoFile
    /\ last_written = {}
    /\ update_calls = 0
    /\ dpc_cleanup = "idle"
    /\ delete_failed = {}

DedupeNext ==
    \/ \E p \in Paths, k \in {"empty", "x", "y"} : FileCompleted(p, k)
    \/ \E p \in Paths, f \in {"none", "xxh128"} : HashItemDuringDownload(p, f)
    \/ \E p \in Paths : FileRemoved(p)
    \/ \E f \in {"none", "xxh128"} : CleanupDupesAfterDownload(f)
    \/ \E u \in SUBSET Paths : FinalDupeCleanup(u)

SpecDedupe == DedupeStart /\ [][DedupeNext]_vars

\* ================================================= claims, under SpecDedupe

\* C29: with hashing OFF, or auto_dedupe off, or ignore_history on,
\* cleanup_dupes_after_download deletes no file and hashes no file: it ends at
\* once, and the files, the hash table and the hashed items stay as they are.
C29_CleanupOffTouchesNothing ==
    /\ [](dpc_cleanup = "final_dupe_cleanup"
            => (hashing # "OFF" /\ auto_dedupe /\ ~ignore_history))
    /\ [][(dpc_cleanup = "idle" /\ dpc_cleanup' # "idle"
             /\ (hashing = "OFF" \/ ~auto_dedupe \/ ignore_history))
            => /\ dpc_cleanup' = "done"
               /\ UNCHANGED << disk, hash_table, hashed_media_items, hashes_dict,
                               hash_file_calls, removed_files >>
         ]_vars

\* C29 case: the cleanup ended with an option against it while a download
\* that was never hashed and two files recorded with one hash were on disk.
C29_Witness ==
    /\ dpc_cleanup = "done"
    /\ hashing = "IN_PLACE" /\ ~auto_dedupe
    /\ removed_files = 0
    /\ \E h \in hashes(hashes_dict) :
          Cardinality({ p \in Range(get_files_with_hash_matches(hash_table, h, "xxh128")) :
                          is_file(disk[p]) }) >= 2
    /\ \E p \in completed_downloads \ hashed_media_items : is_file(disk[p])

dict_paths(hash) == { entry.path : entry \in { x \in hashes_dict : x.hash = hash } }

\* the paths the hash table records with a hash that still are files
table_paths(hash) ==
    { p \in Range(get_files_with_hash_matches(hash_table, hash, "xxh128")) : is_file(disk[p]) }

\* C31: after a hash run (get_file_hashes_dict has returned), for every hash
\* of a content the set of paths hashes_dict holds under it equals the set of
\* paths the hash table records with it as xxh128 that still exist on disk.
C31_DictEqualsTable ==
    dpc_cleanup = "final_dupe_cleanup" =>
        \A h \in { hash_file(k, "xxh128") : k \in {"x", "y"} } :
            dict_paths(h) = table_paths(h)

\* C34: final_dupe_cleanup never removes the last copy: for every hash under
\* which at least one recorded file is on disk before final_dupe_cleanup, at
\* least one recorded file is on disk afterwards, also when the first path
\* the store returns is of a file that no longer exists.
C34_LastCopyKept ==
    [][(dpc_cleanup = "final_dupe_cleanup" /\ dpc_cleanup' = "done")
         => \A h \in hashes(hashes_dict) :
               table_paths(h) # {} => (table_paths(h))' # {}
      ]_vars

\* ================================================================== imgur
\* scraper/crawlers/imgur_crawler.py: ImgurCrawler.album.

\* album, line 95: the test made after a child was handed on
limit_reached(n_children, limit) == limit # 0 /\ n_children >= limit

\* album, lines 48-80: the call up to the loop over the images. client_id:
\* whether an imgur client id is configured; credits_ok: whether
\* check_imgur_credits found 100 credits or more; limit: the entry of
\* maximum_number_of_children for albums (0 when there is none, line 55);
\* n: the images the api lists, or -1 when a get_json call raised.
Album(client_id, credits_ok, limit, n) ==
    /\ apc = "idle"
    /\ IF ~client_id
       THEN /\ apc' = "raised"
            /\ album_error' = "LoginError"
            /\ UNCHANGED << children, children_limit, images >>
       ELSE IF ~credits_ok
       THEN /\ apc' = "raised"
            /\ album_error' = "ScrapeError"
            /\ UNCHANGED << children, children_limit, images >>
       ELSE /\ children' = 0
            /\ children_limit' = limit
            /\ IF n < 0
               THEN /\ apc' = "raised"
                    /\ album_error' = "ScrapeError"
                    /\ UNCHANGED images
               ELSE /\ apc' = "loop"
                    /\ images' = n
                    /\ UNCHANGED album_error
    /\ UNCHANGED emitted
    /\ UNCHANGED not_album

\* album, lines 82-96: one turn of the loop. handle_direct is under
\* error_handling_wrapper, so that a child that failed is counted as well.
AlbumChild(handled) ==
    /\ apc = "loop"
    /\ Len(emitted) < images
    /\ emitted' = Append(emitted, handled)
    /\ children' = children + 1
    /\ IF limit_reached(children + 1, children_limit)
       THEN /\ apc' = "raised"
            /\ album_error' = "MaxChildrenError"
       ELSE UNCHANGED << apc, album_error >>
    /\ UNCHANGED << children_limit, images >>
    /\ UNCHANGED not_album

\* album, line 82: the loop is over, the call returns.
AlbumReturns ==
    /\ apc = "loop"
    /\ Len(emitted) = images
    /\ apc' = "returned"
    /\ UNCHANGED << children, children_limit, images, emitted, album_error >>
    /\ UNCHANGED not_album

AlbumStart ==
    /\ RestInit
    /\ DedupeInit

AlbumNext ==
    \/ \E client_id \in BOOLEAN, credits_ok \in BOOLEAN,
          limit \in 0..MaxChildren, n \in (0..MaxChildren) \cup {-1} :
            Album(client_id, credits_ok, limit, n)
    \/ \E handled \in {"ok", "failed"} : AlbumChild(handled)
    \/ AlbumReturns

SpecAlbum == AlbumStart /\ [][AlbumNext]_vars

\* ================================================== claims, under SpecAlbum

\* C32: for a parent with children_limit L > 0, MaxChildrenError is raised
\* exactly when the parent has more than L children (a parent with exactly L
\* children emits all of them and returns), and never more than L children
\* are emitted.
C32_ErrorIffMoreThanLimit ==
    (apc \in {"returned", "raised"} /\ album_error \notin {"LoginError", "ScrapeError"}
        /\ children_limit > 0)
      => /\ (album_error = "MaxChildrenError") <=> (images > children_limit)
         /\ Len(emitted) <= children_limit

\* ================================================================= coomer
\* crawlers/coomer.py: CoomerCrawler.fetch.

\* CoomerCrawler.__init__, line 27
services == {"onlyfans", "fansly"}

UrlParts == {"thumbnails", "discord", "post", "onlyfans", "favorites", "user"}
UrlNames == {"posts", "1.jpg"}
Urls == [parts : SUBSET UrlParts, name : UrlNames, q : BOOLEAN]

\* utilities.remove_parts
remove_parts(url, part) == [url EXCEPT !.parts = url.parts \ {part}]

\* fetch, lines 36-48: the handler the item is given to first
first_handler(url) ==
    IF "thumbnails" \in url.parts THEN "handle_direct_link"
    ELSE IF "discord" \in url.parts THEN "discord"
    ELSE IF "post" \in url.parts THEN "post"
    ELSE IF url.name = "posts" /\ url.q THEN "search"
    ELSE IF url.parts \cap services # {} THEN "profile"
    ELSE IF "favorites" \in url.parts THEN "favorites"
    ELSE "handle_direct_link"

\* fetch, lines 38-48: whether fetch returns what the handler returns; after
\* favorites (line 48) there is no return
returns_after(handler) == handler # "favorites"

\* fetch is called for an item: the url is classified, the handler is entered.
Fetch(url) ==
    /\ fetch_pc = "idle"
    /\ scrape_url' = IF "thumbnails" \in url.parts THEN remove_parts(url, "thumbnails") ELSE url
    /\ handlers_run' = << first_handler(url) >>
    /\ fetch_pc' = "in_handler"
    /\ UNCHANGED not_coomer

\* the handler is over (every handler is under error_handling_wrapper, so it
\* returns whether it failed or not): fetch returns, or goes on to line 49.
HandlerDone ==
    /\ fetch_pc = "in_handler"
    /\ IF Len(handlers_run) = 1 /\ ~returns_after(handlers_run[1])
       THEN /\ handlers_run' = Append(handlers_run, "handle_direct_link")
            /\ UNCHANGED fetch_pc
       ELSE /\ fetch_pc' = "returned"
            /\ UNCHANGED handlers_run
    /\ UNCHANGED scrape_url
    /\ UNCHANGED not_coomer

CoomerStart ==
    /\ RestInit
    /\ DedupeInit

CoomerNext ==
    \/ \E url \in Urls : Fetch(url)
    \/ HandlerDone

SpecCoomer == CoomerStart /\ [][CoomerNext]_vars

\* ================================================= claims, under SpecCoomer

\* C33: fetch hands each scrape item to exactly one handler: for every shape
\* of url, once a handler was run for the item no second one is run for it.
C33_OneHandler ==
    /\ fetch_pc # "idle" => Len(handlers_run) >= 1
    /\ Len(handlers_run) <= 1

\* ========================================================== cache control
\* clients/http/scraper_client.py: cache_control (clients/scraper_client.py:
\* cache_control_manager, the same code). create_session gives every call a
\* CachedSession of its own whose cache is the one request_cache
\* (clients/http/__init__.py, line 34), so that client_session.cache.disabled
\* is one flag for all calls.

\* cache_control, line 22: a scraper call enters the context manager.
CacheControlEnter(c, cache_disabled_arg) ==
    /\ ccpc[c] = "idle"
    /\ disabled' = cache_disabled_arg
    /\ disabled_arg' = [disabled_arg EXCEPT ![c] = cache_disabled_arg]
    /\ ccpc' = [ccpc EXCEPT ![c] = "body"]
    /\ UNCHANGED not_caching

\* cache_control, lines 23-24: the body ended normally, the generator goes on
\* after its yield.
CacheControlExit(c) ==
    /\ ccpc[c] = "body"
    /\ disabled' = FALSE
    /\ ccpc' = [ccpc EXCEPT ![c] = "returned"]
    /\ UNCHANGED disabled_arg
    /\ UNCHANGED not_caching

\* cache_control, line 23: the body (or client_session.get) raised; the
\* exception is thrown into the generator at its yield, which is in no
\* try/finally, so that line 24 is not run.
CacheControlRaise(c) ==
    /\ ccpc[c] = "body"
    /\ ccpc' = [ccpc EXCEPT ![c] = "raised"]
    /\ UNCHANGED << disabled, disabled_arg >>
    /\ UNCHANGED not_caching

CachingStart ==
    /\ RestInit
    /\ DedupeInit

CachingNext ==
    \E c \in ScraperCalls :
        \/ \E cache_disabled_arg \in BOOLEAN : CacheControlEnter(c, cache_disabled_arg)
        \/ CacheControlExit(c)
        \/ CacheControlRaise(c)

SpecCaching == CachingStart /\ [][CachingNext]_vars

\* ================================================ claims, under SpecCaching

\* C35: the shared response cache is disabled if and only if at least one
\* scraper call made with cache_disabled = true is in progress: an
\* overlapping call with cache_disabled = false never re-enables it, and once
\* every call has finished, normally or by exception, it is enabled again.
C35_DisabledIffDisablingCallInProgress ==
    disabled <=> (\E c \in ScraperCalls : ccpc[c] = "body" /\ disabled_arg[c])

\* ===================================================== limiter, contention
\* Downloader.limiter under concurrent run() calls of plain downloads, with
\* free space enough for RunState to stay set.

ContentionStart ==
    /\ Init
    /\ max_simultaneous_downloads = 1
    /\ max_slots_per_domain = 1
    /\ \A d \in Domains : max_concurrent_downloads[d] = 0

\* the steps of run() call t but the end of download_file
Advance(t) ==
    \/ LimiterStart(t)
    \/ MarkIncompleteDone(t)
    \/ AcquireSemaphore(t)
    \/ AfterSemaphore(t)
    \/ AcquireSessionLimit(t)
    \/ \E f \in BOOLEAN : AcquireFileLock(t, f)
    \/ DlWaitRunning(t)
    \/ \E a \in BOOLEAN : GetDurationDone(t, MaxFree, a)

ContentionNext ==
    \/ \E t \in Tasks, d \in Domains, i \in Items : Run(t, d, i, << >>)
    \/ \E t \in Tasks : Advance(t)
    \/ \E t \in Tasks, o \in Outcomes : RequestDone(t, o)

\* The event loop runs every task that is ready, and a waiter of a semaphore
\* or a lock is woken when the permit is given back. Every started download
\* eventually ends: download_file does not end with a retryable error for ever.
SpecContention ==
    /\ ContentionStart
    /\ [][ContentionNext]_vars
    /\ \A t \in Tasks :
          /\ WF_vars(Advance(t))
          /\ SF_vars(\E o \in Outcomes \ {"retry"} : RequestDone(t, o))

\* ============================================= claims, under SpecContention

\* run() call t waits for the Downloader's semaphore, the global download
\* semaphore or the file lock
WaitsForResources(t) ==
    pc[t] \in {"wait_sem", "wait_running2", "wait_session_limit", "wait_lock"}

\* run() call t has entered the body of run()
EnteredBody(t) ==
    pc[t] \in {"dl_wait_running", "get_duration", "requesting", "done"}

\* C36: concurrent run() calls never deadlock on the Downloader's semaphore,
\* the global download semaphore and the file lock: while RunState is RUNNING
\* and every started download eventually ends, every run() call waiting for
\* these resources eventually enters its body.
C36_WaitersEnterBody ==
    \A t \in Tasks : (RUNNING /\ WaitsForResources(t)) ~> EnteredBody(t)

\* C36 case: two run() calls of one Downloader for the same media item, the
\* first in its body with the permit, the global permit and the file lock,
\* the second waiting for the permit.
C36_Witness ==
    /\ RUNNING
    /\ pc[1] = "requesting"
    /\ pc[2] = "wait_sem"
    /\ dl[1] = dl[2]
    /\ item[1] = item[2]
    /\ semaphore[startup_semaphore(dl[1])] = capacity(startup_semaphore(dl[1]))
    /\ session_limit = max_simultaneous_downloads
    /\ lock_key(item[1]) \in locked_files

\* ===================================================== retry, termination
\* The retry loop of one download whose steps all end: RUNNING stays set,
\* get_duration, check_file_can_download and download_file return or raise.
SpecRetryFair == RetryStart /\ [][RetryNext]_vars /\ WF_vars(RetryNext)

\* ============================================== claims, under SpecRetryFair

\* C37: with a partial file of bounded size the retry loop around a download
\* terminates: every download call returns or re-raises after finitely many
\* attempts; each reset of the attempt counter (status 999) stores a size
\* strictly greater than the one stored before (none stored counting as less
\* than any size).
C37_RetryTerminates ==
    /\ <>(rpc \in {"returned", "raised"})
    /\ [][(errors' = errors + 1 /\ last_error'.status = "999")
            => current_attempt_filesize'[job.filename] > current_attempt_filesize[job.filename]
      ]_vars

\* C37 case: the download was re-raised after the attempt counter had been
\* reset at each growth of the partial file up to its largest size and the
\* attempts that followed were used up.
C37_Witness ==
    /\ rpc = "raised"
    /\ last_error.kind = "DownloadError" /\ last_error.retry /\ last_error.status # "999"
    /\ current_attempt_filesize[job.filename] = MaxBytes
    /\ download_attempts = MaxAttempts /\ ~disable_download_attempt_limit
    /\ bodies > MaxAttempts

\* ======================================== the storage manager and the mount
\* managers/storage_manager.py: check_free_space and the polling loop, every
\* disk_usage call reporting what the mount has at that moment.

\* files are written to the mount while the run goes on.
DiskFills(v) ==
    /\ RUNNING
    /\ v < mount_free
    /\ mount_free' = v
    /\ UNCHANGED not_mount

\* the user frees space on the mount while the run is paused.
SpaceFreed(v) ==
    /\ ~RUNNING
    /\ v > mount_free
    /\ mount_free' = v
    /\ UNCHANGED not_mount

MountNext ==
    \/ \E c \in Callers, np \in BOOLEAN : CheckFreeSpace(c, np, mount_free)
    \/ \E c \in Callers : CheckResumed(c, mount_free)
    \/ Resume
    \/ PollStart
    \/ PollQueryDone(mount_free)
    \/ PollSleepDone
    \/ \E v \in FreeVals : DiskFills(v)
    \/ \E v \in FreeVals : SpaceFreed(v)

SpecMount == StorageStart /\ [][MountNext]_vars

\* ================================================== claims, under SpecMount

\* C38: after check_free_space has paused the run and RunState is set again,
\* its re-check decides on the free space the mount has after the resume:
\* when enough space was freed before the resume, the waiting call does not
\* raise InsufficientFreeSpaceError.
C38_RecheckSeesFreedSpace ==
    [][\A c \in Callers :
          (cpc[c] = "paused" /\ cpc'[c] = "raised") => ~has_sufficient_space(mount_free)
      ]_vars

\* ================================================= claims, under SpecSolver

\* the callers whose sessions.create request is with the solver
CreatingSession == { c \in Callers : spc[c] = "create_session" }

\* C39: at most one sessions.create request is sent to the solver however
\* many solver requests are started concurrently, and session_id is set only
\* when the solver has answered a sessions.create request with status ok.
C39_OneSessionCreate ==
    /\ [](Cardinality(CreatingSession) <= 1)
    /\ [][(~session_id /\ session_id')
            => \E c \in CreatingSession : spc'[c] = "solver"]_vars

\* ================================================ one Downloader, more items
\* downloader.py: Downloader._current_attempt_filesize (line 142) lives as
\* long as the Downloader and is keyed by media_item.filename (lines 103-107).

\* the download of the current item is over and run() is called for another
\* media item of the Downloader, one it has not handled yet: limiter sets
\* current_attempt = 0; the item has a partial file of its own (of the given
\* size, NoEntry: none) and maybe a complete file, left by an earlier session.
NextItem(media_item, size, done) ==
    /\ rpc \in {"returned", "raised"}
    /\ Cardinality(handled_items) < MaxHandled
    /\ media_item \notin handled_items \cup {job}
    /\ handled_items' = handled_items \cup {job}
    /\ job' = media_item
    /\ job_m3u8' = << >>
    /\ current_attempt' = 0
    /\ rpc' = "idle"
    /\ bodies' = 0
    /\ errors' = 0
    /\ raised' = 0
    /\ caught' = "none"
    /\ last_error' = NoError
    /\ only_retryable' = FALSE
    /\ partial_file' = size
    /\ prev_size' = size
    /\ waited' = FALSE
    /\ space_checked' = FALSE
    /\ requests' = 0
    /\ complete_file' = done
    /\ completed' = done
    /\ UNCHANGED << download_attempts, disable_download_attempt_limit,
                    current_attempt_filesize >>
    /\ UNCHANGED << engine, fabric, filing, solving, storing, client, hls, deduping,
                    album, coomer, caching, mount >>

ServingNext ==
    \/ RetryNext
    \/ \E media_item \in Items, size \in {NoEntry} \cup 0..MaxBytes, done \in BOOLEAN :
          NextItem(media_item, size, done)

SpecServing == RetryStart /\ [][ServingNext]_vars

\* ================================================ claims, under SpecServing

====
